---- MODULE Spec2Model ----
(***************************************************************************)
(* Fraud-bulletin pipeline of scraper.py: discovery of PDF links,         *)
(* download with a file cache, text extraction, sentence classification   *)
(* against the category catalog of crime_keywords.py, and the emitted     *)
(* rows.  Texts are sequences of one-character strings.                   *)
(***************************************************************************)
EXTENDS Integers, Sequences, FiniteSets, TLC

VARIABLES
  pc,                 \* where the run is
  phrases, matched,   \* a phrase list and the result of its matcher
  text,               \* the text under classification
  keyword_counts, summary_sentences, summary,
                      \* the results of find_keywords_and_sentences
  year_idx,           \* position in urls.items()
  pdf_entries,        \* the entries of the current source
  entry_idx,          \* position in pdf_entries
  files,              \* the file system below pdfs/: path -> bytes
  pdf_path,           \* the path download_pdf returned
  all_rows,           \* the rows appended so far
  csv,                \* pdf_summaries.csv
  retrieved,          \* the body of the last response to download_pdf
  docs,               \* history: the documents of the current source
  row_doc,            \* history: <<source, entry>> of each row of all_rows
  calls,              \* history: the calls of download_pdf for this source
  field,              \* loader.py: the argument of parse_keyword_counts
  parsed,             \* loader.py: what parse_keyword_counts returned
  table,              \* loader.py: the rows of the table ic3_alerts
  batches,            \* loader.py: the chunks sent by upsert, per run
  runs,               \* loader.py: the completed runs of main
  loader_rows,        \* loader.py: rows of main
  offset              \* loader.py: i of main's for loop

vars ==
  <<pc, phrases, matched, text, keyword_counts, summary_sentences, summary,
    year_idx, pdf_entries, entry_idx, files, pdf_path, all_rows, csv,
    retrieved, docs, row_doc, calls, field, parsed, table,
    batches, runs, loader_rows, offset>>

LoaderVars == <<field, parsed, table, batches, runs, loader_rows, offset>>

\* a Python value: its type and, by type, the items of a dict, the elements
\* of a list, the number or the characters of a str
PyValue(type, items, elems, num, chars) ==
  [type |-> type, items |-> items, elems |-> elems, num |-> num,
   chars |-> chars]

PyNone == PyValue("NoneType", [k \in {} |-> 0], <<>>, 0, <<>>)

\* loader.py before anything of it ran
LoaderIdle ==
  /\ field = PyNone
  /\ parsed = PyNone
  /\ table = <<>>
  /\ batches = <<>>
  /\ runs = 0
  /\ loader_rows = <<>>
  /\ offset = 0

(***************************************************************************)
(* Characters                                                              *)
(***************************************************************************)
LowerSeq ==
  <<"a", "b", "c", "d", "e", "f", "g", "h", "i", "j", "k", "l", "m", "n", "o", "p", "q", "r", "s", "t", "u", "v", "w", "x", "y", "z">>

UpperSeq ==
  <<"A", "B", "C", "D", "E", "F", "G", "H", "I", "J", "K", "L", "M", "N", "O", "P", "Q", "R", "S", "T", "U", "V", "W", "X", "Y", "Z">>

Digits == {"0", "1", "2", "3", "4", "5", "6", "7", "8", "9"}

\* str.isalpha() on the characters of the model's alphabet
Letters == {LowerSeq[i] : i \in 1..26} \cup {UpperSeq[i] : i \in 1..26}

\* the characters \s, str.strip() and str.split() treat as whitespace
Whitespace == {" ", "\n", "\t", "\r"}

\* case folding of re.IGNORECASE
LowerOf ==
  [c \in {UpperSeq[i] : i \in 1..26} |->
     LowerSeq[CHOOSE i \in 1..26 : UpperSeq[i] = c]]

Lower(c) == IF c \in DOMAIN LowerOf THEN LowerOf[c] ELSE c

LowerStr(s) == [i \in 1..Len(s) |-> Lower(s[i])]

(***************************************************************************)
(* crime_keywords.py: the category catalog                                 *)
(***************************************************************************)
CategoryOrder ==
  << "phishing",
     "extortion",
     "personal_data_breach",
     "non_payment_non_delivery",
     "investment",
     "tech_support",
     "business_email_compromise",
     "identity_theft",
     "employment",
     "confidence_romance",
     "government_impersonation",
     "credit_card_check_fraud",
     "harassment_stalking",
     "real_estate",
     "advanced_fee",
     "crimes_against_children",
     "lottery_sweepstakes_inheritance",
     "ransomware",
     "overpayment",
     "ipr_copyright_counterfeit",
     "threats_of_violence",
     "sim_swap",
     "botnet",
     "malware",
     "cryptocurrency" >>

CategoryIds == {CategoryOrder[i] : i \in 1..Len(CategoryOrder)}

CRIME_PATTERNS ==
  [k \in CategoryIds |->
    CASE k = "phishing" ->
           << <<"p", "h", "i", "s", "h", "i", "n", "g">>,
              <<"s", "p", "o", "o", "f", "i", "n", "g">>,
              <<"e", "m", "a", "i", "l", " ", "s", "c", "a", "m">>,
              <<"e", "m", "a", "i", "l", " ", "f", "r", "a", "u", "d">>,
              <<"f", "a", "k", "e", " ", "e", "m", "a", "i", "l">>,
              <<"s", "m", "i", "s", "h", "i", "n", "g">>,
              <<"v", "i", "s", "h", "i", "n", "g">> >>
      [] k = "extortion" ->
           << <<"e", "x", "t", "o", "r", "t", "i", "o", "n">>,
              <<"b", "l", "a", "c", "k", "m", "a", "i", "l">>,
              <<"r", "a", "n", "s", "o", "m", " ", "d", "e", "m", "a", "n", "d">> >>
      [] k = "personal_data_breach" ->
           << <<"d", "a", "t", "a", " ", "b", "r", "e", "a", "c", "h">>,
              <<"i", "n", "f", "o", "r", "m", "a", "t", "i", "o", "n", " ", "l", "e", "a", "k">>,
              <<"p", "e", "r", "s", "o", "n", "a", "l", " ", "d", "a", "t", "a", " ", "e", "x", "p", "o", "s", "u", "r", "e">> >>
      [] k = "non_payment_non_delivery" ->
           << <<"n", "o", "n", "-", "p", "a", "y", "m", "e", "n", "t">>,
              <<"n", "o", "n", " ", "d", "e", "l", "i", "v", "e", "r", "y">>,
              <<"f", "a", "i", "l", "e", "d", " ", "d", "e", "l", "i", "v", "e", "r", "y">>,
              <<"d", "i", "d", " ", "n", "o", "t", " ", "p", "a", "y">>,
              <<"d", "i", "d", "n", "'", "t", " ", "p", "a", "y">> >>
      [] k = "investment" ->
           << <<"i", "n", "v", "e", "s", "t", "m", "e", "n", "t", " ", "f", "r", "a", "u", "d">>,
              <<"p", "o", "n", "z", "i", " ", "s", "c", "h", "e", "m", "e">>,
              <<"p", "y", "r", "a", "m", "i", "d", " ", "s", "c", "h", "e", "m", "e">>,
              <<"s", "e", "c", "u", "r", "i", "t", "i", "e", "s", " ", "f", "r", "a", "u", "d">> >>
      [] k = "tech_support" ->
           << <<"t", "e", "c", "h", " ", "s", "u", "p", "p", "o", "r", "t", " ", "s", "c", "a", "m">>,
              <<"f", "a", "k", "e", " ", "t", "e", "c", "h", " ", "h", "e", "l", "p">>,
              <<"t", "e", "c", "h", "n", "i", "c", "a", "l", " ", "s", "u", "p", "p", "o", "r", "t", " ", "f", "r", "a", "u", "d">> >>
      [] k = "business_email_compromise" ->
           << <<"b", "u", "s", "i", "n", "e", "s", "s", " ", "e", "m", "a", "i", "l", " ", "c", "o", "m", "p", "r", "o", "m", "i", "s", "e">>,
              <<"b", "e", "c", " ", "s", "c", "a", "m">>,
              <<"c", "e", "o", " ", "f", "r", "a", "u", "d">> >>
      [] k = "identity_theft" ->
           << <<"i", "d", "e", "n", "t", "i", "t", "y", " ", "t", "h", "e", "f", "t">>,
              <<"i", "d", " ", "t", "h", "e", "f", "t">>,
              <<"s", "t", "o", "l", "e", "n", " ", "i", "d", "e", "n", "t", "i", "t", "y">>,
              <<"i", "d", "e", "n", "t", "i", "t", "y", " ", "f", "r", "a", "u", "d">> >>
      [] k = "employment" ->
           << <<"e", "m", "p", "l", "o", "y", "m", "e", "n", "t", " ", "s", "c", "a", "m">>,
              <<"j", "o", "b", " ", "s", "c", "a", "m">>,
              <<"f", "a", "k", "e", " ", "j", "o", "b", " ", "p", "o", "s", "t", "i", "n", "g">> >>
      [] k = "confidence_romance" ->
           << <<"r", "o", "m", "a", "n", "c", "e", " ", "s", "c", "a", "m">>,
              <<"d", "a", "t", "i", "n", "g", " ", "s", "c", "a", "m">>,
              <<"c", "a", "t", "f", "i", "s", "h", "i", "n", "g">> >>
      [] k = "government_impersonation" ->
           << <<"g", "o", "v", "e", "r", "n", "m", "e", "n", "t", " ", "i", "m", "p", "e", "r", "s", "o", "n", "a", "t", "i", "o", "n">>,
              <<"f", "a", "k", "e", " ", "i", "r", "s">>,
              <<"f", "a", "k", "e", " ", "p", "o", "l", "i", "c", "e">>,
              <<"f", "a", "k", "e", " ", "f", "b", "i">> >>
      [] k = "credit_card_check_fraud" ->
           << <<"c", "r", "e", "d", "i", "t", " ", "c", "a", "r", "d", " ", "f", "r", "a", "u", "d">>,
              <<"c", "h", "e", "c", "k", " ", "f", "r", "a", "u", "d">>,
              <<"b", "a", "n", "k", " ", "f", "r", "a", "u", "d">> >>
      [] k = "harassment_stalking" ->
           << <<"h", "a", "r", "a", "s", "s", "m", "e", "n", "t">>,
              <<"s", "t", "a", "l", "k", "i", "n", "g">>,
              <<"c", "y", "b", "e", "r", "s", "t", "a", "l", "k", "i", "n", "g">> >>
      [] k = "real_estate" ->
           << <<"r", "e", "a", "l", " ", "e", "s", "t", "a", "t", "e", " ", "f", "r", "a", "u", "d">>,
              <<"p", "r", "o", "p", "e", "r", "t", "y", " ", "s", "c", "a", "m">>,
              <<"m", "o", "r", "t", "g", "a", "g", "e", " ", "f", "r", "a", "u", "d">> >>
      [] k = "advanced_fee" ->
           << <<"a", "d", "v", "a", "n", "c", "e", "d", " ", "f", "e", "e", " ", "s", "c", "a", "m">>,
              <<"u", "p", "f", "r", "o", "n", "t", " ", "f", "e", "e">>,
              <<"p", "r", "e", "p", "a", "y", "m", "e", "n", "t", " ", "s", "c", "a", "m">> >>
      [] k = "crimes_against_children" ->
           << <<"c", "h", "i", "l", "d", " ", "e", "x", "p", "l", "o", "i", "t", "a", "t", "i", "o", "n">>,
              <<"c", "h", "i", "l", "d", " ", "a", "b", "u", "s", "e">>,
              <<"c", "h", "i", "l", "d", " ", "p", "o", "r", "n", "o", "g", "r", "a", "p", "h", "y">> >>
      [] k = "lottery_sweepstakes_inheritance" ->
           << <<"l", "o", "t", "t", "e", "r", "y", " ", "s", "c", "a", "m">>,
              <<"s", "w", "e", "e", "p", "s", "t", "a", "k", "e", "s", " ", "f", "r", "a", "u", "d">>,
              <<"i", "n", "h", "e", "r", "i", "t", "a", "n", "c", "e", " ", "s", "c", "a", "m">> >>
      [] k = "ransomware" ->
           << <<"r", "a", "n", "s", "o", "m", "w", "a", "r", "e">>,
              <<"m", "a", "l", "w", "a", "r", "e", " ", "r", "a", "n", "s", "o", "m">> >>
      [] k = "overpayment" ->
           << <<"o", "v", "e", "r", "p", "a", "y", "m", "e", "n", "t", " ", "s", "c", "a", "m">>,
              <<"r", "e", "f", "u", "n", "d", " ", "s", "c", "a", "m">> >>
      [] k = "ipr_copyright_counterfeit" ->
           << <<"c", "o", "p", "y", "r", "i", "g", "h", "t", " ", "i", "n", "f", "r", "i", "n", "g", "e", "m", "e", "n", "t">>,
              <<"c", "o", "u", "n", "t", "e", "r", "f", "e", "i", "t", " ", "g", "o", "o", "d", "s">>,
              <<"f", "a", "k", "e", " ", "p", "r", "o", "d", "u", "c", "t", "s">> >>
      [] k = "threats_of_violence" ->
           << <<"t", "h", "r", "e", "a", "t", "s">>,
              <<"v", "i", "o", "l", "e", "n", "c", "e", " ", "t", "h", "r", "e", "a", "t", "s">> >>
      [] k = "sim_swap" ->
           << <<"s", "i", "m", " ", "s", "w", "a", "p">>,
              <<"s", "i", "m", " ", "h", "i", "j", "a", "c", "k", "i", "n", "g">> >>
      [] k = "botnet" ->
           << <<"b", "o", "t", "n", "e", "t">>,
              <<"d", "d", "o", "s", " ", "n", "e", "t", "w", "o", "r", "k">> >>
      [] k = "malware" ->
           << <<"m", "a", "l", "w", "a", "r", "e">>,
              <<"v", "i", "r", "u", "s", " ", "i", "n", "f", "e", "c", "t", "i", "o", "n">>,
              <<"t", "r", "o", "j", "a", "n">> >>
      [] k = "cryptocurrency" ->
           << <<"c", "r", "y", "p", "t", "o", " ", "s", "c", "a", "m">>,
              <<"b", "i", "t", "c", "o", "i", "n", " ", "f", "r", "a", "u", "d">>,
              <<"c", "r", "y", "p", "t", "o", "c", "u", "r", "r", "e", "n", "c", "y", " ", "s", "c", "a", "m">>,
              <<"c", "r", "y", "p", "t", "o", " ", "t", "h", "e", "f", "t">> >> ]

(***************************************************************************)
(* crime_keywords.py line 31: re.compile("|".join(re.escape(term)), re.I)  *)
(***************************************************************************)
\* the characters re.escape prefixes with a backslash
SpecialChars ==
  {"(", ")", "[", "]", "{", "}", "?", "*", "+", "-", "|", "^", "$", "\\",
   ".", "&", "~", "#", " ", "\t", "\n", "\r"}

RECURSIVE ReEscape(_)
ReEscape(term) ==
  IF term = <<>> THEN <<>>
  ELSE (IF Head(term) \in SpecialChars THEN <<"\\", Head(term)>>
        ELSE <<Head(term)>>) \o ReEscape(Tail(term))

RECURSIVE JoinWith(_, _)
JoinWith(sep, list) ==
  IF list = <<>> THEN <<>>
  ELSE IF Len(list) = 1 THEN list[1]
  ELSE list[1] \o sep \o JoinWith(sep, Tail(list))

\* The regex parser on a pattern of escaped literals: an unescaped "|" ends
\* an alternative, a backslash makes the next character a literal.  The
\* pattern "" is one empty alternative.
RECURSIVE ParseAlternation(_, _, _, _)
ParseAlternation(p, i, cur, acc) ==
  IF i > Len(p) THEN Append(acc, cur)
  ELSE IF p[i] = "\\" THEN ParseAlternation(p, i + 2, Append(cur, p[i + 1]), acc)
  ELSE IF p[i] = "|" THEN ParseAlternation(p, i + 1, <<>>, Append(acc, cur))
  ELSE ParseAlternation(p, i + 1, Append(cur, p[i]), acc)

\* a literal as a sequence of one-character classes
Lit(s) == [k \in 1..Len(s) |-> {s[k]}]

\* re.compile(pattern, re.I) for a pattern of escaped literals: a compiled
\* regex is its flag and its alternatives, each a sequence of character
\* classes (folded to lower case under re.I)
ReCompileI(p) ==
  LET alts == ParseAlternation(p, 1, <<>>, <<>>)
  IN  [ignorecase |-> TRUE,
       alts |-> [a \in 1..Len(alts) |-> Lit(LowerStr(alts[a]))]]

\* one alternative matches s at position i
MatchAt(alt, s, i) ==
  /\ i + Len(alt) - 1 <= Len(s)
  /\ \A k \in 1..Len(alt) : s[i + k - 1] \in alt[k]

\* pattern.search(s): some alternative matches at some position (the empty
\* alternative matches anywhere, any other only where its first class does)
Search(regex, s) ==
  LET t == IF regex.ignorecase THEN LowerStr(s) ELSE s
  IN  \E a \in 1..Len(regex.alts) :
        \/ regex.alts[a] = <<>>
        \/ \E i \in 1..Len(t) :
             t[i] \in regex.alts[a][1] /\ MatchAt(regex.alts[a], t, i)

\* the dict comprehension's value for one phrase list
CompilePhrases(v) ==
  ReCompileI(JoinWith(<<"|">>, [j \in 1..Len(v) |-> ReEscape(v[j])]))

FRAUD_REGEX == [k \in CategoryIds |-> CompilePhrases(CRIME_PATTERNS[k])]

(***************************************************************************)
(* Sample sentences                                                        *)
(***************************************************************************)
\* "This email is a classic phishing attempt asking for your password."
S_PHISH ==
  <<"T", "h", "i", "s", " ", "e", "m", "a", "i", "l", " ", "i", "s", " ", "a", " ", "c", "l", "a", "s", "s", "i", "c", " ", "p", "h", "i", "s", "h", "i", "n", "g", " ", "a", "t", "t", "e", "m", "p", "t", " ", "a", "s", "k", "i", "n", "g", " ", "f", "o", "r", " ", "y", "o", "u", "r", " ", "p", "a", "s", "s", "w", "o", "r", "d", ".">>

\* "This email is a classic phishing\nattempt asking for your password."
S_WRAP ==
  <<"T", "h", "i", "s", " ", "e", "m", "a", "i", "l", " ", "i", "s", " ", "a", " ", "c", "l", "a", "s", "s", "i", "c", " ", "p", "h", "i", "s", "h", "i", "n", "g", "\n", "a", "t", "t", "e", "m", "p", "t", " ", "a", "s", "k", "i", "n", "g", " ", "f", "o", "r", " ", "y", "o", "u", "r", " ", "p", "a", "s", "s", "w", "o", "r", "d", ".">>

\* "Please send payment now to avoid legal action against you regarding unpaid ransom demand."
S_RANSOM ==
  <<"P", "l", "e", "a", "s", "e", " ", "s", "e", "n", "d", " ", "p", "a", "y", "m", "e", "n", "t", " ", "n", "o", "w", " ", "t", "o", " ", "a", "v", "o", "i", "d", " ", "l", "e", "g", "a", "l", " ", "a", "c", "t", "i", "o", "n", " ", "a", "g", "a", "i", "n", "s", "t", " ", "y", "o", "u", " ", "r", "e", "g", "a", "r", "d", "i", "n", "g", " ", "u", "n", "p", "a", "i", "d", " ", "r", "a", "n", "s", "o", "m", " ", "d", "e", "m", "a", "n", "d", ".">>

\* "Criminals combine Phishing and spoofing with ransomware and malware!"
S_MULTI ==
  <<"C", "r", "i", "m", "i", "n", "a", "l", "s", " ", "c", "o", "m", "b", "i", "n", "e", " ", "P", "h", "i", "s", "h", "i", "n", "g", " ", "a", "n", "d", " ", "s", "p", "o", "o", "f", "i", "n", "g", " ", "w", "i", "t", "h", " ", "r", "a", "n", "s", "o", "m", "w", "a", "r", "e", " ", "a", "n", "d", " ", "m", "a", "l", "w", "a", "r", "e", "!">>

\* "alert tcp $HTTP_PORTS any -> any any (msg:"ransomware test"; sid:12345;)"
S_RULE ==
  <<"a", "l", "e", "r", "t", " ", "t", "c", "p", " ", "$", "H", "T", "T", "P", "_", "P", "O", "R", "T", "S", " ", "a", "n", "y", " ", "-", ">", " ", "a", "n", "y", " ", "a", "n", "y", " ", "(", "m", "s", "g", ":", "\"", "r", "a", "n", "s", "o", "m", "w", "a", "r", "e", " ", "t", "e", "s", "t", "\"", ";", " ", "s", "i", "d", ":", "1", "2", "3", "4", "5", ";", ")">>

\* "Phishing!"
S_SHORT ==
  <<"P", "h", "i", "s", "h", "i", "n", "g", "!">>

\* "The weather stayed pleasant across the whole region today."
S_PLAIN ==
  <<"T", "h", "e", " ", "w", "e", "a", "t", "h", "e", "r", " ", "s", "t", "a", "y", "e", "d", " ", "p", "l", "e", "a", "s", "a", "n", "t", " ", "a", "c", "r", "o", "s", "s", " ", "t", "h", "e", " ", "w", "h", "o", "l", "e", " ", "r", "e", "g", "i", "o", "n", " ", "t", "o", "d", "a", "y", ".">>

(***************************************************************************)
(* scraper.py: is_meaningful_sentence                                      *)
(***************************************************************************)
\* str.strip(): what lies between the first and the last character that is
\* not whitespace
Strip(s) ==
  LET AllSpace(a, b) == \A j \in a..b : s[j] \in Whitespace
      keep == {i \in 1..Len(s) : s[i] \notin Whitespace}
  IN  IF keep = {} THEN <<>>
      ELSE SubSeq(s, CHOOSE i \in keep : AllSpace(1, i - 1),
                     CHOOSE i \in keep : AllSpace(i + 1, Len(s)))

\* re.sub(r'\s+', ' ', s): every maximal run of whitespace becomes one space
\* (the first character of a run is replaced, the rest of the run is dropped)
CollapseWhitespace(s) ==
  LET marked == [i \in 1..Len(s) |->
                   [c |-> IF s[i] \in Whitespace THEN " " ELSE s[i],
                    drop |-> /\ s[i] \in Whitespace
                             /\ i > 1
                             /\ s[i - 1] \in Whitespace]]
      IsKept(m) == ~m.drop
      kept == SelectSeq(marked, IsKept)
  IN  [i \in 1..Len(kept) |-> kept[i].c]

\* len(s.split()): the number of maximal runs of non-whitespace
WordCount(s) ==
  Cardinality({i \in 1..Len(s) :
                 /\ s[i] \notin Whitespace
                 /\ (i = 1 \/ s[i - 1] \in Whitespace)})

\* sum(1 for c in s if not c.isalpha() and c != ' ')
NonAlphaCount(s) ==
  Cardinality({i \in 1..Len(s) : s[i] \notin Letters /\ s[i] # " "})

MinWords == 5
MinChars == 30
MaxChars == 1000
\* the ratio threshold 0.4 as the fraction RatioNum / RatioDen
RatioNum == 4
RatioDen == 10

HexLower == Digits \cup {"a", "b", "c", "d", "e", "f"}

\* a literal of a re.IGNORECASE pattern
LitI(s) == Lit(LowerStr(s))

\* The junk patterns, searched with re.IGNORECASE.  \d+ is written as one
\* digit class: a search finds "sid:" followed by one or more digits exactly
\* when it finds "sid:" followed by a digit.
JunkPatterns ==
  << LitI(<<"$", "H", "T", "T", "P", "_", "P", "O", "R", "T", "S">>),
     LitI(<<"a", "l", "e", "r", "t", " ", "t", "c", "p">>),
     LitI(<<"s", "i", "d", ":">>) \o <<Digits>>,
     LitI(<<"h", "t", "t", "p", "_", "h", "e", "a", "d", "e", "r">>),
     LitI(<<"h", "t", "t", "p", "_", "u", "r", "i">>),
     LitI(<<"f", "l", "o", "w", "b", "i", "t", "s">>),
     LitI(<<"p", "c", "r", "e", ":">>),
     <<{"|"}, HexLower, HexLower, {"|"}>>,
     LitI(<<"r", "e", "v", ":">>) \o <<Digits>>,
     LitI(<<"m", "s", "g", ":">>),
     LitI(<<"m", "e", "t", "a", "d", "a", "t", "a", ":">>),
     LitI(<<"c", "l", "a", "s", "s", "t", "y", "p", "e", ":">>),
     LitI(<<"c", "o", "n", "t", "e", "n", "t", ":">>) >>

\* r"https?://|www\.|\.com|\.gov|\.ru|\.top|\.net", case-sensitive
UrlRegex ==
  [ignorecase |-> FALSE,
   alts |-> << Lit(<<"h", "t", "t", "p", ":", "/", "/">>),
               Lit(<<"h", "t", "t", "p", "s", ":", "/", "/">>),
               Lit(<<"w", "w", "w", ".">>),
               Lit(<<".", "c", "o", "m">>),
               Lit(<<".", "g", "o", "v">>),
               Lit(<<".", "r", "u">>),
               Lit(<<".", "t", "o", "p">>),
               Lit(<<".", "n", "e", "t">>) >>]

\* r"[;{}<>@|$]"
CodeSymbolRegex ==
  [ignorecase |-> FALSE,
   alts |-> << <<{";", "{", "}", "<", ">", "@", "|", "$"}>> >>]

\* is_meaningful_sentence as it would be without lines 34-35
is_meaningful_sentence_raw(sentence) ==
  LET s == sentence
  IN  IF WordCount(s) < MinWords \/ Len(s) < MinChars THEN FALSE
      ELSE IF Len(s) > MaxChars THEN FALSE
      ELSE IF RatioDen * NonAlphaCount(s) > RatioNum * Len(s) THEN FALSE
      ELSE IF \E p \in 1..Len(JunkPatterns) :
                Search([ignorecase |-> TRUE, alts |-> <<JunkPatterns[p]>>], s)
           THEN FALSE
      ELSE IF Search(UrlRegex, s) THEN FALSE
      ELSE IF Search(CodeSymbolRegex, s) THEN FALSE
      ELSE TRUE

\* is_meaningful_sentence as it would be with the boundary lengths rejected
is_meaningful_sentence_strict(sentence) ==
  LET s == CollapseWhitespace(Strip(sentence))
  IN  IF WordCount(s) < MinWords \/ Len(s) <= MinChars THEN FALSE
      ELSE IF Len(s) >= MaxChars THEN FALSE
      ELSE IF RatioDen * NonAlphaCount(s) > RatioNum * Len(s) THEN FALSE
      ELSE IF \E p \in 1..Len(JunkPatterns) :
                Search([ignorecase |-> TRUE, alts |-> <<JunkPatterns[p]>>], s)
           THEN FALSE
      ELSE IF Search(UrlRegex, s) THEN FALSE
      ELSE IF Search(CodeSymbolRegex, s) THEN FALSE
      ELSE TRUE

is_meaningful_sentence(sentence) ==
  LET s == CollapseWhitespace(Strip(sentence))
  IN  IF WordCount(s) < MinWords \/ Len(s) < MinChars THEN FALSE
      ELSE IF Len(s) > MaxChars THEN FALSE
      \* non_alpha_ratio > 0.4, on exact fractions (len(s) >= 30 here)
      ELSE IF RatioDen * NonAlphaCount(s) > RatioNum * Len(s) THEN FALSE
      ELSE IF \E p \in 1..Len(JunkPatterns) :
                Search([ignorecase |-> TRUE, alts |-> <<JunkPatterns[p]>>], s)
           THEN FALSE
      ELSE IF Search(UrlRegex, s) THEN FALSE
      ELSE IF Search(CodeSymbolRegex, s) THEN FALSE
      ELSE TRUE

(***************************************************************************)
(* scraper.py: find_keywords_and_sentences                                 *)
(***************************************************************************)
SentenceEnd == {".", "!", "?"}

\* the first index from i on that holds no whitespace
RECURSIVE SkipWhitespace(_, _)
SkipWhitespace(s, i) ==
  IF i <= Len(s) /\ s[i] \in Whitespace THEN SkipWhitespace(s, i + 1) ELSE i

\* re.split(r'(?<=[.!?])\s+', text): a run of whitespace that starts right
\* after . ! or ? is a separator (the whole run is consumed), everything
\* else stays in the sentence; n separators give n + 1 pieces
SplitSentences(t) ==
  LET IsCut(i) == t[i] \in Whitespace /\ i > 1 /\ t[i - 1] \in SentenceEnd
      cuts == SelectSeq([i \in 1..Len(t) |-> i], IsCut)
      first(k) == IF k = 1 THEN 1 ELSE SkipWhitespace(t, cuts[k - 1])
      last(k) == IF k > Len(cuts) THEN Len(t) ELSE cuts[k] - 1
  IN  [k \in 1..(Len(cuts) + 1) |-> SubSeq(t, first(k), last(k))]

\* the inner loop as it would be without the quality filter of line 146
RECURSIVE ScanSentencesUnfiltered(_, _, _, _, _)
ScanSentencesUnfiltered(pattern, sentences, i, match_count, collected) ==
  IF i > Len(sentences)
  THEN [match_count |-> match_count, summary_sentences |-> collected]
  ELSE IF Search(pattern, sentences[i])
       THEN ScanSentencesUnfiltered(pattern, sentences, i + 1, match_count + 1,
                                    Append(collected, Strip(sentences[i])))
  ELSE ScanSentencesUnfiltered(pattern, sentences, i + 1, match_count, collected)

\* the inner loop as it would be if it left out the last sentence
RECURSIVE ScanSentencesSkipLast(_, _, _, _, _)
ScanSentencesSkipLast(pattern, sentences, i, match_count, collected) ==
  IF i >= Len(sentences)
  THEN [match_count |-> match_count, summary_sentences |-> collected]
  ELSE IF Search(pattern, sentences[i]) /\ is_meaningful_sentence(sentences[i])
       THEN ScanSentencesSkipLast(pattern, sentences, i + 1, match_count + 1,
                                  Append(collected, Strip(sentences[i])))
  ELSE ScanSentencesSkipLast(pattern, sentences, i + 1, match_count, collected)

\* the inner loop (lines 144-148) from sentence i on
RECURSIVE ScanSentences(_, _, _, _, _)
ScanSentences(pattern, sentences, i, match_count, collected) ==
  IF i > Len(sentences)
  THEN [match_count |-> match_count, summary_sentences |-> collected]
  ELSE IF Search(pattern, sentences[i]) /\ is_meaningful_sentence(sentences[i])
       THEN ScanSentences(pattern, sentences, i + 1, match_count + 1,
                          Append(collected, Strip(sentences[i])))
  ELSE ScanSentences(pattern, sentences, i + 1, match_count, collected)

\* line 149 as it would be if it stored every category
HasMatchesOrNone(match_count) == match_count >= 0

\* line 149: if match_count > 0
HasMatches(match_count) == match_count > 0

\* the outer loop (lines 142-150) from category k of FRAUD_REGEX.items() on;
\* a category is stored only with a positive count
RECURSIVE ScanCategories(_, _, _, _)
ScanCategories(k, sentences, counts, collected) ==
  IF k > Len(CategoryOrder)
  THEN [counts |-> counts, summary_sentences |-> collected]
  ELSE LET keyword == CategoryOrder[k]
           r == ScanSentences(FRAUD_REGEX[keyword], sentences, 1, 0,
                              collected)
       IN  IF HasMatches(r.match_count)
           THEN ScanCategories(k + 1, sentences,
                               counts @@ (keyword :> r.match_count),
                               r.summary_sentences)
           ELSE ScanCategories(k + 1, sentences, counts, r.summary_sentences)

\* list(dict.fromkeys(l)): the first occurrence of every element, in order
RECURSIVE DictFromKeys(_, _, _)
DictFromKeys(l, i, acc) ==
  IF i > Len(l) THEN acc
  ELSE IF \E j \in 1..Len(acc) : acc[j] = l[i]
       THEN DictFromKeys(l, i + 1, acc)
  ELSE DictFromKeys(l, i + 1, Append(acc, l[i]))

\* str.replace(old, new) for one-character old and new
Replace(s, old, new) == [i \in 1..Len(s) |-> IF s[i] = old THEN new ELSE s[i]]

EmptyDict == [k \in {} |-> 0]

find_keywords_and_sentences(t) ==
  LET sentences == SplitSentences(t)
      scanned == ScanCategories(1, sentences, EmptyDict, <<>>)
      deduped == DictFromKeys(scanned.summary_sentences, 1, <<>>)
  IN  [counts |-> scanned.counts,
       summary_sentences |-> deduped,
       summary |-> Replace(Replace(JoinWith(<<" ">>, deduped), "\n", " "),
                           "\r", " ")]

(***************************************************************************)
(* scraper.py: get_quarter and the dates of scrape_pdf_links               *)
(***************************************************************************)
\* get_quarter as it would be with the month bounds exclusive
get_quarter_exclusive(date) ==
  LET month == date.month
  IN  IF month < 3 THEN 1
      ELSE IF month < 6 THEN 2
      ELSE IF month < 9 THEN 3
      ELSE 4

get_quarter(date) ==
  IF date.month <= 3 THEN 1
  ELSE IF date.month <= 6 THEN 2
  ELSE IF date.month <= 9 THEN 3
  ELSE 4

\* entry["date"] is None
NoDate == [year |-> 0, month |-> 0, day |-> 0]

WeekdayAbbr == {"Mon", "Tue", "Wed", "Thu", "Fri", "Sat", "Sun"}

MonthAbbr ==
  <<"Jan", "Feb", "Mar", "Apr", "May", "Jun",
    "Jul", "Aug", "Sep", "Oct", "Nov", "Dec">>

IsLeap(y) == (y % 4 = 0 /\ y % 100 # 0) \/ y % 400 = 0

DaysInMonth(y, m) ==
  IF m = 2 THEN (IF IsLeap(y) THEN 29 ELSE 28)
  ELSE IF m \in {4, 6, 9, 11} THEN 30
  ELSE 31

\* A match of r"\b\w{3},\s+\d{1,2}\s+\w{3}\s+\d{4}\b" is the record of its
\* four fields [a, d, b, Y] with found = TRUE; found = FALSE when the
\* enclosing text has no match.
\* datetime.strptime(match, "%a, %d %b %Y") raises ValueError unless the
\* fields name a weekday, a month and a day of that month (names are
\* compared as written: the anchors of the model capitalise them as the
\* index pages do).
StrptimeRaises(m) ==
  \/ m.a \notin WeekdayAbbr
  \/ ~(\E i \in 1..12 : MonthAbbr[i] = m.b)
  \/ m.Y < 1
  \/ m.d < 1
  \/ m.d > DaysInMonth(m.Y, CHOOSE i \in 1..12 : MonthAbbr[i] = m.b)

Strptime(m) ==
  [year |-> m.Y, month |-> CHOOSE i \in 1..12 : MonthAbbr[i] = m.b, day |-> m.d]

DigitChar == <<"0", "1", "2", "3", "4", "5", "6", "7", "8", "9">>

\* a number as n zero-padded decimal digits
RECURSIVE Padded(_, _)
Padded(x, n) ==
  IF n = 0 THEN <<>> ELSE Append(Padded(x \div 10, n - 1), DigitChar[(x % 10) + 1])

\* date.strftime("%Y-%m-%d")
Strftime(date) ==
  Padded(date.year, 4) \o <<"-">> \o Padded(date.month, 2) \o <<"-">>
    \o Padded(date.day, 2)

(***************************************************************************)
(* scraper.py: scrape_pdf_links                                            *)
(***************************************************************************)
EndsWith(s, suffix) ==
  /\ Len(s) >= Len(suffix)
  /\ SubSeq(s, Len(s) - Len(suffix) + 1, Len(s)) = suffix

DotPdf == <<".", "p", "d", "f">>

\* urljoin(page_url, href) for an href that is an absolute path: the origin
\* of the page followed by the href
UrlJoin(page_url, href) == page_url.origin \o href

\* the body of the for loop for one <a href> (lines 79-100): the entry it
\* appends, for an href that ends in .pdf
LinkEntry(page_url, a_tag) ==
  [title |-> a_tag.title,
   url |-> UrlJoin(page_url, a_tag.href),
   date |-> IF a_tag.date_match.found THEN Strptime(a_tag.date_match)
            ELSE NoDate]

IsPdfLink(a_tag) == EndsWith(LowerStr(a_tag.href), DotPdf)

\* scrape_pdf_links(page_url) on the response of requests.get: the entries,
\* or the ValueError of strptime (raised), which nothing catches
scrape_pdf_links(page_url, response) ==
  IF response.status_code # 200 THEN [raised |-> FALSE, pdf_entries |-> <<>>]
  ELSE LET links == SelectSeq(response.anchors, IsPdfLink)
       IN  IF \E i \in 1..Len(links) :
                /\ links[i].date_match.found
                /\ StrptimeRaises(links[i].date_match)
           THEN [raised |-> TRUE, pdf_entries |-> <<>>]
           ELSE [raised |-> FALSE,
                 pdf_entries |->
                   [i \in 1..Len(links) |-> LinkEntry(page_url, links[i])]]

(***************************************************************************)
(* scraper.py: download_pdf                                                *)
(***************************************************************************)
\* os.path.basename(url): what follows the last "/"
Basename(url) ==
  LET slashes == {i \in 1..Len(url) : url[i] = "/"}
  IN  IF slashes = {} THEN url
      ELSE SubSeq(url, (CHOOSE i \in slashes : \A j \in slashes : i >= j) + 1,
                  Len(url))

\* download_pdf returning None
NoPath == <<>>

\* os.path.join(folder, filename)
PathJoin(folder, filename) == <<folder, filename>>

\* download_pdf as it would be without the os.path.exists check
download_pdf_refetch(url, folder, fs, response) ==
  LET path == PathJoin(folder, Basename(url))
  IN  IF response.status_code = 200
      THEN [path |-> path, files |-> (path :> response.content) @@ fs,
            network |-> TRUE]
      ELSE [path |-> NoPath, files |-> fs, network |-> TRUE]

\* download_pdf as it would be if it wrote the body whatever the status
download_pdf_keep_body(url, folder, fs, response) ==
  LET path == PathJoin(folder, Basename(url))
  IN  IF path \in DOMAIN fs
      THEN [path |-> path, files |-> fs, network |-> FALSE]
      ELSE IF response.status_code = 200
      THEN [path |-> path, files |-> fs @@ (path :> response.content),
            network |-> TRUE]
      ELSE [path |-> NoPath, files |-> fs @@ (path :> response.content),
            network |-> TRUE]

\* download_pdf(url, folder) on the file system fs (path -> bytes) with the
\* response requests.get would give: the returned path, the file system
\* afterwards, whether requests.get was called
download_pdf(url, folder, fs, response) ==
  LET path == PathJoin(folder, Basename(url))
  IN  IF path \in DOMAIN fs
      THEN [path |-> path, files |-> fs, network |-> FALSE]
      ELSE IF response.status_code = 200
      THEN [path |-> path, files |-> fs @@ (path :> response.content),
            network |-> TRUE]
      ELSE [path |-> NoPath, files |-> fs, network |-> TRUE]

(***************************************************************************)
(* scraper.py: extract_text                                                *)
(***************************************************************************)
\* A document is [opens, pages], a page is [ok, text]: fitz.open raises on a
\* document with opens = FALSE, page.get_text raises on a page with
\* ok = FALSE.
\* the for loop over the pages from page i on; an exception ends the loop
\* and leaves text as it is
RECURSIVE ExtractPages(_, _, _)
ExtractPages(pages, i, t) ==
  IF i > Len(pages) THEN t
  ELSE IF ~pages[i].ok THEN t
  ELSE ExtractPages(pages, i + 1, t \o pages[i].text \o <<" ">>)

\* extract_text(pdf_path) on the bytes at that path: a document fitz cannot
\* open raises inside the try, and "" is returned
extract_text(doc) ==
  IF ~doc.opens THEN <<>> ELSE ExtractPages(doc.pages, 1, <<>>)

(***************************************************************************)
(* The inputs of a run: index pages, documents, responses                  *)
(***************************************************************************)
\* the number of entries of urls (years 2020, 2021, ...)
NumSources == 2

\* the most <a href> elements an index page holds
MaxLinks == 2

\* "https://www.ic3.gov"
Origin ==
  <<"h", "t", "t", "p", "s", ":", "/", "/", "w", "w", "w", ".", "i", "c", "3", ".", "g", "o", "v">>

\* urls: year -> index page, in insertion order
Urls ==
  [i \in 1..NumSources |->
     [year |-> 2019 + i,
      page_url |-> [origin |-> Origin,
                    path |-> <<"/", "C", "S", "A", "/">> \o Padded(2019 + i, 4)]]]

NoMatch == [found |-> FALSE, a |-> "", d |-> 0, b |-> "", Y |-> 0]

\* "Mon, 14 Jul 2025"
DateJul == [found |-> TRUE, a |-> "Mon", d |-> 14, b |-> "Jul", Y |-> 2025]

\* "Fri, 31 Feb 2025": matches the pattern, is no date
DateFeb31 == [found |-> TRUE, a |-> "Fri", d |-> 31, b |-> "Feb", Y |-> 2025]

\* the <a href> elements index pages are made of: title, href and the date
\* match in the text of the parent
Anchors ==
  { [title |-> "Alert X", href |-> <<"/", "a", "/", "x", ".", "p", "d", "f">>,
     date_match |-> DateJul],
    [title |-> "Alert X2", href |-> <<"/", "b", "/", "x", ".", "p", "d", "f">>,
     date_match |-> NoMatch],
    [title |-> "Alert Z", href |-> <<"/", "a", "/", "z", ".", "P", "D", "F">>,
     date_match |-> DateFeb31],
    [title |-> "Home", href |-> <<"/", "h", ".", "h", "t", "m", "l">>,
     date_match |-> NoMatch] }

RECURSIVE SeqsUpTo(_, _)
SeqsUpTo(S, n) ==
  IF n = 0 THEN {<<>>}
  ELSE LET shorter == SeqsUpTo(S, n - 1)
       IN  shorter \cup {Append(s, x) : s \in shorter, x \in S}

\* what requests.get(page_url) can give: a failure status, or a page of
\* anchors
IndexResponses ==
  { [status_code |-> 404, anchors |-> <<>>] }
  \cup { [status_code |-> 200, anchors |-> a] :
           a \in SeqsUpTo(Anchors, MaxLinks) }

Page(t) == [ok |-> TRUE, text |-> t]

BadPage == [ok |-> FALSE, text |-> <<>>]

\* the bodies a document URL can return
PdfTwoPages == [opens |-> TRUE, pages |-> <<Page(S_PHISH), Page(S_RANSOM)>>]

\* a scanned document: one page without text
PdfScanned == [opens |-> TRUE, pages |-> <<Page(<<>>)>>]

\* not a PDF at all
PdfCorrupt == [opens |-> FALSE, pages |-> <<>>]

\* the second page cannot be rendered; no sentence of the first matches a
\* category
PdfDamaged == [opens |-> TRUE, pages |-> <<Page(S_PLAIN), BadPage>>]

Bodies == {PdfTwoPages, PdfScanned, PdfCorrupt, PdfDamaged}

\* what requests.get(url) can give for a document
DownloadResponses ==
  { [status_code |-> 404, content |-> PdfCorrupt] }
  \cup { [status_code |-> 200, content |-> b] : b \in Bodies }

NoFiles == [p \in {} |-> PdfCorrupt]

\* find_keywords_and_sentences on every text extract_text can return for a
\* body of Bodies, evaluated once
Classified ==
  [t \in {extract_text(b) : b \in Bodies} |-> find_keywords_and_sentences(t)]

(***************************************************************************)
(* scraper.py: the main pipeline (lines 176-209)                           *)
(***************************************************************************)
\* the blank test as it would be without strip()
IsBlankUnstripped(t) == t = <<>>

\* not text.strip()
IsBlank(t) == Strip(t) = <<>>

\* the date test as it would be if it let every entry pass
DateMissingNever(entry) == FALSE

\* entry["date"] is None
DateMissing(entry) == entry.date = NoDate

\* lines 198-204
MakeRow(entry, counts, s) ==
  [title |-> entry.title,
   date |-> Strftime(entry.date),
   quarter |-> get_quarter(entry.date),
   keyword_counts |-> counts,
   summary |-> s]

\* the append as it would be if it put the row first
PrependRow(rows, row) == <<row>> \o rows

\* list.append of all_rows.append(row)
AppendRow(rows, row) == Append(rows, row)

Entry == pdf_entries[entry_idx]

\* the position in docs of the document under work
Cur == entry_idx

Init ==
  /\ pc = "scrape"
  /\ phrases = <<>>
  /\ matched = FALSE
  /\ text = <<>>
  /\ keyword_counts = EmptyDict
  /\ summary_sentences = <<>>
  /\ summary = <<>>
  /\ year_idx = 1
  /\ pdf_entries = <<>>
  /\ entry_idx = 1
  /\ files = NoFiles
  /\ pdf_path = NoPath
  /\ all_rows = <<>>
  /\ csv = [written |-> FALSE, rows |-> <<>>]
  /\ docs = <<>>
  /\ row_doc = <<>>
  /\ calls = <<>>
  /\ retrieved = PdfCorrupt
  /\ LoaderIdle

\* lines 178-181: the next source is scraped; the exception of strptime
\* ends the run
Scrape ==
  /\ pc = "scrape"
  /\ \E response \in IndexResponses :
       LET r == scrape_pdf_links(Urls[year_idx].page_url, response)
       IN  IF r.raised
           THEN /\ pc' = "crashed"
                /\ UNCHANGED <<pdf_entries, entry_idx, docs, calls>>
           ELSE /\ pc' = "entry"
                /\ calls' = <<>>
                /\ pdf_entries' = r.pdf_entries
                /\ entry_idx' = 1
                /\ docs' =
                     [i \in 1..Len(r.pdf_entries) |->
                        [source |-> year_idx, index |-> i,
                         status |-> "DISCOVERED",
                         url |-> r.pdf_entries[i].url,
                         downloaded |-> FALSE,
                         extracted |-> FALSE,
                         empty |-> FALSE,
                         blank |-> FALSE,
                         classified |-> FALSE,
                         dated |-> r.pdf_entries[i].date # NoDate]]
  /\ UNCHANGED LoaderVars
  /\ UNCHANGED <<phrases, matched, text, keyword_counts, summary_sentences,
                 summary, year_idx, files, pdf_path, all_rows, csv, row_doc,
                 retrieved>>

\* the inner for loop is exhausted: on to the next source, or to line 208
NextSource ==
  /\ pc = "entry"
  /\ entry_idx > Len(pdf_entries)
  /\ year_idx' = year_idx + 1
  /\ pc' = IF year_idx < NumSources THEN "scrape" ELSE "save"
  /\ UNCHANGED LoaderVars
  /\ UNCHANGED <<phrases, matched, text, keyword_counts, summary_sentences,
                 summary, pdf_entries, entry_idx, files, pdf_path, all_rows,
                 csv, docs, row_doc, calls, retrieved>>

\* lines 183-205: one iteration of the inner for loop.  download_pdf, and
\* continue when it returned None; extract_text, and continue when the text
\* is blank; find_keywords_and_sentences; continue when the entry has no
\* date; else the row is appended
ProcessEntry ==
  /\ pc = "entry"
  /\ entry_idx <= Len(pdf_entries)
  /\ \E response \in DownloadResponses :
     \E dl \in {download_pdf(Entry.url, Urls[year_idx].year, files, response)} :
     \E t \in {IF dl.path # NoPath THEN extract_text(dl.files[dl.path]) ELSE <<>>} :
     \E r \in {Classified[t]} :
     \E classify \in {dl.path # NoPath /\ ~IsBlank(t)} :
       LET folder == Urls[year_idx].year
           got == dl.path # NoPath
           emit == classify /\ ~DateMissing(Entry)
       IN  /\ files' = dl.files
           /\ pdf_path' = dl.path
           /\ retrieved' = IF dl.network THEN response.content ELSE retrieved
           /\ calls' = Append(calls,
                [url |-> Entry.url, folder |-> folder, path |-> dl.path,
                 cached |-> PathJoin(folder, Basename(Entry.url)) \in DOMAIN files,
                 network |-> dl.network,
                 status_code |-> IF dl.network THEN response.status_code ELSE 0])
           /\ text' = IF got THEN t ELSE text
           /\ keyword_counts' = IF classify THEN r.counts ELSE keyword_counts
           /\ summary_sentences' =
                IF classify THEN r.summary_sentences ELSE summary_sentences
           /\ summary' = IF classify THEN r.summary ELSE summary
           /\ all_rows' =
                IF emit THEN AppendRow(all_rows, MakeRow(Entry, r.counts, r.summary))
                ELSE all_rows
           /\ row_doc' =
                IF emit THEN AppendRow(row_doc, <<year_idx, entry_idx>>)
                ELSE row_doc
           /\ docs' =
                [docs EXCEPT
                   ![Cur].status = IF emit THEN "EMITTED" ELSE "SKIPPED",
                   ![Cur].downloaded = (dl.path # NoPath),
                   ![Cur].extracted = got,
                   ![Cur].empty = (got /\ t = <<>>),
                   ![Cur].blank = (got /\ Strip(t) = <<>>),
                   ![Cur].classified = classify]
  /\ entry_idx' = entry_idx + 1
  /\ UNCHANGED LoaderVars
  /\ UNCHANGED <<pc, phrases, matched, year_idx, pdf_entries, csv>>

\* lines 208-209: the rows are written to the CSV file
Save ==
  /\ pc = "save"
  /\ csv' = [written |-> TRUE, rows |-> all_rows]
  /\ pc' = "done"
  /\ UNCHANGED LoaderVars
  /\ UNCHANGED <<phrases, matched, text, keyword_counts, summary_sentences,
                 summary, year_idx, pdf_entries, entry_idx, files, pdf_path,
                 all_rows, docs, row_doc, calls, retrieved>>

Next ==
  \/ Scrape
  \/ NextSource
  \/ ProcessEntry
  \/ Save

Spec == Init /\ [][Next]_vars

(***************************************************************************)
(* find_keywords_and_sentences on its own, over a set of texts             *)
(***************************************************************************)
\* the most sentences a text is put together from
MaxPieces == 2

Pieces == {S_PHISH, S_WRAP, S_RANSOM, S_MULTI, S_RULE}

Separators == {<<" ">>, <<"\n">>}

RECURSIVE TextsOf(_)
TextsOf(n) ==
  IF n = 0 THEN {<<>>}
  ELSE IF n = 1 THEN Pieces
  ELSE {t \o sep \o p : t \in TextsOf(n - 1), sep \in Separators, p \in Pieces}

ClassifyTexts == UNION {TextsOf(n) : n \in 0..MaxPieces}

InitClassify ==
  /\ pc = "c_start"
  /\ text \in ClassifyTexts
  /\ phrases = <<>>
  /\ matched = FALSE
  /\ keyword_counts = EmptyDict
  /\ summary_sentences = <<>>
  /\ summary = <<>>
  /\ year_idx = 1
  /\ pdf_entries = <<>>
  /\ entry_idx = 1
  /\ files = NoFiles
  /\ pdf_path = NoPath
  /\ all_rows = <<>>
  /\ csv = [written |-> FALSE, rows |-> <<>>]
  /\ retrieved = PdfCorrupt
  /\ docs = <<>>
  /\ row_doc = <<>>
  /\ calls = <<>>
  /\ LoaderIdle

\* one call of find_keywords_and_sentences(text)
ClassifyText ==
  /\ pc = "c_start"
  /\ LET r == find_keywords_and_sentences(text)
     IN  /\ keyword_counts' = r.counts
         /\ summary_sentences' = r.summary_sentences
         /\ summary' = r.summary
  /\ pc' = "c_done"
  /\ UNCHANGED LoaderVars
  /\ UNCHANGED <<phrases, matched, text, year_idx, pdf_entries, entry_idx,
                 files, pdf_path, all_rows, csv, retrieved, docs, row_doc,
                 calls>>

NextClassify == ClassifyText

SpecClassify == InitClassify /\ [][NextClassify]_vars

(***************************************************************************)
(* The matcher of one phrase list on its own                               *)
(***************************************************************************)
\* the phrase lists of the catalog, and the empty list
PhraseLists == {CRIME_PATTERNS[k] : k \in CategoryIds} \cup {<<>>}

MatcherTexts == {<<>>, S_PHISH, S_RANSOM, S_MULTI, S_RULE, S_SHORT, S_PLAIN}

InitMatcher ==
  /\ pc = "m_start"
  /\ phrases \in PhraseLists
  /\ text \in MatcherTexts
  /\ matched = FALSE
  /\ keyword_counts = EmptyDict
  /\ summary_sentences = <<>>
  /\ summary = <<>>
  /\ year_idx = 1
  /\ pdf_entries = <<>>
  /\ entry_idx = 1
  /\ files = NoFiles
  /\ pdf_path = NoPath
  /\ all_rows = <<>>
  /\ csv = [written |-> FALSE, rows |-> <<>>]
  /\ retrieved = PdfCorrupt
  /\ docs = <<>>
  /\ row_doc = <<>>
  /\ calls = <<>>
  /\ LoaderIdle

\* the matcher is compiled from the phrase list and searched in the text
BuildAndSearch ==
  /\ pc = "m_start"
  /\ matched' = Search(CompilePhrases(phrases), text)
  /\ pc' = "m_done"
  /\ UNCHANGED LoaderVars
  /\ UNCHANGED <<phrases, text, keyword_counts, summary_sentences, summary,
                 year_idx, pdf_entries, entry_idx, files, pdf_path, all_rows,
                 csv, retrieved, docs, row_doc, calls>>

NextMatcher == BuildAndSearch

SpecMatcher == InitMatcher /\ [][NextMatcher]_vars

(***************************************************************************)
(* Properties of the pipeline (Spec)                                       *)
(***************************************************************************)
Finished(d) == d.status \in {"EMITTED", "SKIPPED"}

\* the number of rows of all_rows that are of document d
RowsOf(d) ==
  Cardinality({j \in 1..Len(row_doc) : row_doc[j] = <<d.source, d.index>>})

Qualifies(d) == d.downloaded /\ d.extracted /\ ~d.blank /\ d.dated

QualifiesNonEmpty(d) == d.downloaded /\ d.extracted /\ ~d.empty /\ d.dated

\* C1, as amended: a document has at most one row, it has one exactly when it
\* ended EMITTED, and a document whose iteration is over ended EMITTED
\* exactly when its download returned a path, its extracted text is not
\* blank (not empty after strip()) and its date is not None; else SKIPPED.
C1_EmittedIffNotBlank ==
  \A n \in 1..Len(docs) :
    /\ RowsOf(docs[n]) <= 1
    /\ (RowsOf(docs[n]) = 1) <=> (docs[n].status = "EMITTED")
    /\ Finished(docs[n]) =>
         ((docs[n].status = "EMITTED") <=> Qualifies(docs[n]))

\* C1, as stated: the same with "its extracted text is non-empty".
C1_EmittedIffNonEmpty ==
  \A n \in 1..Len(docs) :
    /\ RowsOf(docs[n]) <= 1
    /\ (RowsOf(docs[n]) = 1) <=> (docs[n].status = "EMITTED")
    /\ Finished(docs[n]) =>
         ((docs[n].status = "EMITTED") <=> QualifiesNonEmpty(docs[n]))

\* a row of the first source is there, and in the second source a dated,
\* downloaded document was skipped for its blank, non-empty text
C1_Witness ==
  /\ Len(row_doc) >= 1 /\ row_doc[1][1] = 1
  /\ \E m \in 1..Len(docs) :
       /\ docs[m].source = 2
       /\ docs[m].status = "SKIPPED" /\ RowsOf(docs[m]) = 0
       /\ docs[m].downloaded /\ docs[m].dated
       /\ docs[m].blank /\ ~docs[m].empty

\* C2: the run ends only after every source was scraped and every
\* discovered document was driven to EMITTED or SKIPPED; no outcome of
\* discovery, download, extraction or classification ends it earlier.
C2_RunDrivesEveryDocument ==
  (pc \in {"done", "crashed"}) =>
     /\ pc = "done"
     /\ year_idx = NumSources + 1
     /\ \A n \in 1..Len(docs) : Finished(docs[n])

Before(a, b) == a[1] < b[1] \/ (a[1] = b[1] /\ a[2] < b[2])

\* C3: the rows are in order of source and, within a source, of discovery,
\* whichever documents were skipped, and the CSV file holds them in that
\* order.
C3_RowsInSourceAndDiscoveryOrder ==
  /\ Len(row_doc) = Len(all_rows)
  /\ \A i, j \in 1..Len(row_doc) : i < j => Before(row_doc[i], row_doc[j])
  /\ csv.written => csv.rows = all_rows

\* the file is written with rows of two sources, the first of them of the
\* second document of its source, whose first document was skipped
C3_Witness ==
  /\ csv.written
  /\ Len(csv.rows) >= 2
  /\ row_doc[1] = <<1, 2>>
  /\ row_doc[Len(row_doc)][1] = 2

SameTarget(c, d) == c.url = d.url /\ c.folder = d.folder

CachePath(c) == PathJoin(c.folder, Basename(c.url))

\* C4, as amended: once a call of download returned a path, every later call
\* for the same URL and cache directory returns the same path without
\* network I/O; and a call that finds the cache path existing returns it
\* without a network call.
C4_CacheHitAfterSuccess ==
  /\ \A i, j \in 1..Len(calls) :
       (i < j /\ SameTarget(calls[i], calls[j]) /\ calls[i].path # NoPath) =>
          (calls[j].path = calls[i].path /\ ~calls[j].network)
  /\ \A i \in 1..Len(calls) :
       calls[i].cached => (~calls[i].network /\ calls[i].path = CachePath(calls[i]))

\* C4, as stated: any two calls for the same URL and cache directory return
\* the same path and do network I/O at most once between them.
C4_TwoCallsOneFetch ==
  /\ \A i, j \in 1..Len(calls) :
       (i < j /\ SameTarget(calls[i], calls[j])) =>
          /\ calls[j].path = calls[i].path
          /\ ~(calls[i].network /\ calls[j].network)
  /\ \A i \in 1..Len(calls) :
       calls[i].cached => (~calls[i].network /\ calls[i].path = CachePath(calls[i]))

\* the same URL downloaded twice into one directory: fetched, then found
C4_Witness ==
  \E i, j \in 1..Len(calls) :
    /\ i < j /\ SameTarget(calls[i], calls[j])
    /\ calls[i].network /\ calls[i].path # NoPath
    /\ calls[j].cached /\ ~calls[j].network /\ calls[j].path = calls[i].path

\* C5: after a call of download whose retrieval ended with a status other
\* than 200, None was returned and no file is at the cache path; after one
\* whose retrieval ended with 200, the file at the returned path holds the
\* retrieved body.
C5_NoFileOnFailureBodyOnSuccess ==
  calls # <<>> =>
    LET c == calls[Len(calls)]
    IN  /\ (c.network /\ c.status_code # 200) =>
             (c.path = NoPath /\ CachePath(c) \notin DOMAIN files)
        /\ (c.network /\ c.status_code = 200) =>
             /\ c.path = CachePath(c)
             /\ c.path \in DOMAIN files
             /\ files[c.path] = retrieved

\* a failed retrieval followed by a successful one of a two-page document
C5_Witness ==
  /\ Len(calls) >= 2
  /\ calls[1].network /\ calls[1].status_code = 404 /\ calls[1].path = NoPath
  /\ calls[Len(calls)].status_code = 200
  /\ retrieved = PdfTwoPages
  /\ files[calls[Len(calls)].path] = PdfTwoPages

CountsValid(counts) ==
  /\ DOMAIN counts \subseteq CategoryIds
  /\ \A k \in DOMAIN counts : counts[k] \in Nat /\ counts[k] >= 1

\* C9: the keys of the counts of every classification result and of every
\* row are category identifiers of the catalog, and every count is at
\* least 1.
C9_CountsOverCatalogAndPositive ==
  /\ CountsValid(keyword_counts)
  /\ \A j \in 1..Len(all_rows) : CountsValid(all_rows[j].keyword_counts)

\* a row of a document with one phishing and one extortion sentence
C9_Witness ==
  \E j \in 1..Len(all_rows) :
    /\ DOMAIN all_rows[j].keyword_counts = {"phishing", "extortion"}
    /\ keyword_counts = all_rows[j].keyword_counts

(***************************************************************************)
(* Properties of find_keywords_and_sentences (SpecClassify)                *)
(***************************************************************************)
Sentences == SplitSentences(text)

Counted(c, s) == Search(FRAUD_REGEX[c], s) /\ is_meaningful_sentence(s)

Reported(c) == IF c \in DOMAIN keyword_counts THEN keyword_counts[c] ELSE 0

\* C6: the count reported for a category is the number of sentence
\* occurrences of the text that match the category's matcher and pass the
\* quality filter (0 when the category is absent); a sentence with several
\* phrases of the category counts once.
C6_CountIsQualifyingSentences ==
  pc = "c_done" =>
    \A c \in CategoryIds :
      Reported(c) =
        Cardinality({i \in 1..Len(Sentences) : Counted(c, Sentences[i])})

\* a text of two sentences, the first with two phishing phrases: 2 is
\* reported for phishing
C6_Witness ==
  /\ pc = "c_done"
  /\ text = S_MULTI \o <<" ">> \o S_PHISH
  /\ Reported("phishing") = 2
  /\ Reported("malware") = 1

\* the summary as it reads: every sentence with \n and \r replaced
Shown ==
  [i \in 1..Len(summary_sentences) |->
     Replace(Replace(summary_sentences[i], "\n", " "), "\r", " ")]

ShownOf(s) == Replace(Replace(Strip(s), "\n", " "), "\r", " ")

\* the first <<category, sentence>> position at which x is appended
FirstAppended(x) ==
  CHOOSE p \in (1..Len(CategoryOrder)) \X (1..Len(Sentences)) :
    /\ Counted(CategoryOrder[p[1]], Sentences[p[2]])
    /\ ShownOf(Sentences[p[2]]) = x
    /\ \A q \in (1..Len(CategoryOrder)) \X (1..Len(Sentences)) :
         (Counted(CategoryOrder[q[1]], Sentences[q[2]])
            /\ ShownOf(Sentences[q[2]]) = x) => ~Before(q, p)

\* C7: the summary is the matched sentences joined by single spaces, every
\* one of them once: none is dropped, none is repeated, and they stand in
\* the order in which they were first appended.
C7_SummarySentencesOnce ==
  pc = "c_done" =>
    /\ summary = JoinWith(<<" ">>, Shown)
    /\ \A i, j \in 1..Len(Shown) : i < j => Shown[i] # Shown[j]
    /\ \A k \in 1..Len(Sentences) :
         (\E c \in CategoryIds : Counted(c, Sentences[k])) =>
            \E i \in 1..Len(Shown) : Shown[i] = ShownOf(Sentences[k])
    /\ \A i, j \in 1..Len(Shown) :
         i < j => Before(FirstAppended(Shown[i]), FirstAppended(Shown[j]))

\* C8: a sentence that fails the quality filter is not in the summary and
\* adds to no count: every count is at most the number of matching
\* sentences less the matching sentences that fail the filter.
C8_FilterGatesEveryCategory ==
  pc = "c_done" =>
    /\ \A i \in 1..Len(Sentences) :
         ~is_meaningful_sentence(Sentences[i]) =>
            \A j \in 1..Len(summary_sentences) :
              summary_sentences[j] # Strip(Sentences[i])
    /\ \A c \in CategoryIds :
         Reported(c) + Cardinality({i \in 1..Len(Sentences) :
                                      /\ Search(FRAUD_REGEX[c], Sentences[i])
                                      /\ ~is_meaningful_sentence(Sentences[i])})
           <= Cardinality({i \in 1..Len(Sentences) :
                             Search(FRAUD_REGEX[c], Sentences[i])})

\* the rule line with "ransomware" after a phishing sentence: phishing is
\* counted, ransomware is not
C8_Witness ==
  /\ pc = "c_done"
  /\ text = S_PHISH \o <<" ">> \o S_RULE
  /\ Search(FRAUD_REGEX["ransomware"], Sentences[2])
  /\ ~is_meaningful_sentence(Sentences[2])
  /\ DOMAIN keyword_counts = {"phishing"}

(***************************************************************************)
(* Properties of the matcher (SpecMatcher)                                 *)
(***************************************************************************)
\* phrase p is a substring of t, letter case apart
ContainsPhrase(t, p) ==
  \E i \in 1..(Len(t) - Len(p) + 1) :
    LowerStr(SubSeq(t, i, i + Len(p) - 1)) = LowerStr(p)

\* C10: the matcher built from a phrase list matches a text exactly when
\* the text contains one of the phrases, letter case apart; so the matcher
\* of the empty list matches nothing.
C10_MatchesIffContainsPhrase ==
  pc = "m_done" =>
    (matched <=> \E j \in 1..Len(phrases) : ContainsPhrase(text, phrases[j]))

(***************************************************************************)
(* Further properties of the pipeline (Spec)                               *)
(***************************************************************************)
\* fitz cannot open the document, or cannot render one of its pages
ParseFails(doc) == ~doc.opens \/ \E i \in 1..Len(doc.pages) : ~doc.pages[i].ok

\* C11: when the document at the downloaded path cannot be opened, or a
\* page of it cannot be rendered (a page after rendered pages included),
\* the extracted text is empty and the document ends SKIPPED.
C11_ParseFailureGivesEmptyText ==
  /\ (pdf_path # NoPath /\ ParseFails(files[pdf_path])) => text = <<>>
  /\ \A n \in 1..Len(calls) :
       (calls[n].path # NoPath /\ ParseFails(files[calls[n].path])) =>
          docs[n].status = "SKIPPED"

\* C12, as amended: a document without a date never has a row and ends
\* SKIPPED, yet the classifier is invoked on it as on any other: on every
\* document whose download returned a path and whose text is not blank.
C12_UndatedSkippedAfterClassification ==
  \A n \in 1..Len(docs) :
    Finished(docs[n]) =>
      /\ ~docs[n].dated => (docs[n].status = "SKIPPED" /\ RowsOf(docs[n]) = 0)
      /\ docs[n].classified <=> (docs[n].downloaded /\ ~docs[n].blank)

\* C12, as stated: the classifier is never invoked on a document whose date
\* is null.
C12_NoClassifierOnUndated ==
  \A n \in 1..Len(docs) : docs[n].classified => docs[n].dated

\* the document just processed has no date and was skipped, and the counts
\* of its two pages are the result the classifier left
C12_Witness ==
  /\ entry_idx > 1 /\ entry_idx - 1 <= Len(docs)
  /\ docs[entry_idx - 1].status = "SKIPPED"
  /\ ~docs[entry_idx - 1].dated
  /\ docs[entry_idx - 1].classified
  /\ retrieved = PdfTwoPages
  /\ DOMAIN keyword_counts = {"phishing", "extortion"}
  /\ RowsOf(docs[entry_idx - 1]) = 0

\* C19: the body behind every emitted row was retrieved from the row's own
\* URL: by the download call of its document, or by an earlier call for the
\* same URL whose file that call found.
C19_ContentFromOwnUrl ==
  \A n \in 1..Len(calls) :
    docs[n].status = "EMITTED" =>
      \/ calls[n].network
      \/ \E m \in 1..(n - 1) :
           /\ calls[m].url = calls[n].url
           /\ calls[m].network
           /\ calls[m].path = calls[n].path

(***************************************************************************)
(* loader.py: parse_keyword_counts, and the strings it is given            *)
(***************************************************************************)
\* the characters of a category identifier
KeyChars ==
  [k \in CategoryIds |->
    CASE k = "phishing" ->
        <<"p", "h", "i", "s", "h", "i", "n", "g">>
      [] k = "extortion" ->
        <<"e", "x", "t", "o", "r", "t", "i", "o", "n">>
      [] k = "personal_data_breach" ->
        <<"p", "e", "r", "s", "o", "n", "a", "l", "_", "d", "a", "t", "a", "_", "b", "r", "e", "a", "c", "h">>
      [] k = "non_payment_non_delivery" ->
        <<"n", "o", "n", "_", "p", "a", "y", "m", "e", "n", "t", "_", "n", "o", "n", "_", "d", "e", "l", "i", "v", "e", "r", "y">>
      [] k = "investment" ->
        <<"i", "n", "v", "e", "s", "t", "m", "e", "n", "t">>
      [] k = "tech_support" ->
        <<"t", "e", "c", "h", "_", "s", "u", "p", "p", "o", "r", "t">>
      [] k = "business_email_compromise" ->
        <<"b", "u", "s", "i", "n", "e", "s", "s", "_", "e", "m", "a", "i", "l", "_", "c", "o", "m", "p", "r", "o", "m", "i", "s", "e">>
      [] k = "identity_theft" ->
        <<"i", "d", "e", "n", "t", "i", "t", "y", "_", "t", "h", "e", "f", "t">>
      [] k = "employment" ->
        <<"e", "m", "p", "l", "o", "y", "m", "e", "n", "t">>
      [] k = "confidence_romance" ->
        <<"c", "o", "n", "f", "i", "d", "e", "n", "c", "e", "_", "r", "o", "m", "a", "n", "c", "e">>
      [] k = "government_impersonation" ->
        <<"g", "o", "v", "e", "r", "n", "m", "e", "n", "t", "_", "i", "m", "p", "e", "r", "s", "o", "n", "a", "t", "i", "o", "n">>
      [] k = "credit_card_check_fraud" ->
        <<"c", "r", "e", "d", "i", "t", "_", "c", "a", "r", "d", "_", "c", "h", "e", "c", "k", "_", "f", "r", "a", "u", "d">>
      [] k = "harassment_stalking" ->
        <<"h", "a", "r", "a", "s", "s", "m", "e", "n", "t", "_", "s", "t", "a", "l", "k", "i", "n", "g">>
      [] k = "real_estate" ->
        <<"r", "e", "a", "l", "_", "e", "s", "t", "a", "t", "e">>
      [] k = "advanced_fee" ->
        <<"a", "d", "v", "a", "n", "c", "e", "d", "_", "f", "e", "e">>
      [] k = "crimes_against_children" ->
        <<"c", "r", "i", "m", "e", "s", "_", "a", "g", "a", "i", "n", "s", "t", "_", "c", "h", "i", "l", "d", "r", "e", "n">>
      [] k = "lottery_sweepstakes_inheritance" ->
        <<"l", "o", "t", "t", "e", "r", "y", "_", "s", "w", "e", "e", "p", "s", "t", "a", "k", "e", "s", "_", "i", "n", "h", "e", "r", "i", "t", "a", "n", "c", "e">>
      [] k = "ransomware" ->
        <<"r", "a", "n", "s", "o", "m", "w", "a", "r", "e">>
      [] k = "overpayment" ->
        <<"o", "v", "e", "r", "p", "a", "y", "m", "e", "n", "t">>
      [] k = "ipr_copyright_counterfeit" ->
        <<"i", "p", "r", "_", "c", "o", "p", "y", "r", "i", "g", "h", "t", "_", "c", "o", "u", "n", "t", "e", "r", "f", "e", "i", "t">>
      [] k = "threats_of_violence" ->
        <<"t", "h", "r", "e", "a", "t", "s", "_", "o", "f", "_", "v", "i", "o", "l", "e", "n", "c", "e">>
      [] k = "sim_swap" ->
        <<"s", "i", "m", "_", "s", "w", "a", "p">>
      [] k = "botnet" ->
        <<"b", "o", "t", "n", "e", "t">>
      [] k = "malware" ->
        <<"m", "a", "l", "w", "a", "r", "e">>
      [] k = "cryptocurrency" ->
        <<"c", "r", "y", "p", "t", "o", "c", "u", "r", "r", "e", "n", "c", "y">>]

PyDict(items) == PyValue("dict", items, <<>>, 0, <<>>)

PyList(elems) == PyValue("list", EmptyDict, elems, 0, <<>>)

PyInt(n) == PyValue("int", EmptyDict, <<>>, n, <<>>)

PyBool(b) == PyValue("bool", EmptyDict, <<>>, IF b THEN 1 ELSE 0, <<>>)

\* float('nan')
PyNaN == PyValue("float", EmptyDict, <<>>, 0, <<>>)

PyStr(chars) == PyValue("str", EmptyDict, <<>>, 0, chars)

\* a counts mapping of the classifier as a Python dict: its keys are the
\* characters of the identifiers
DictOf(counts) ==
  PyDict([c \in {KeyChars[k] : k \in DOMAIN counts} |->
            counts[CHOOSE k \in DOMAIN counts : KeyChars[k] = c]])

\* str(n) for n >= 0
RECURSIVE DecStr(_)
DecStr(n) ==
  IF n < 10 THEN <<DigitChar[n + 1]>>
  ELSE DecStr(n \div 10) \o <<DigitChar[(n % 10) + 1]>>

\* the keys of a counts mapping in insertion order: find_keywords_and_sentences
\* inserts them in catalog order
KeysInOrder(counts) ==
  LET InCounts(k) == k \in DOMAIN counts
  IN  SelectSeq(CategoryOrder, InCounts)

\* the items of a dict display, keys between the quote character q
Items(counts, q) ==
  LET keys == KeysInOrder(counts)
  IN  JoinWith(<<",", " ">>,
               [i \in 1..Len(keys) |->
                  <<q>> \o KeyChars[keys[i]] \o <<q, ":", " ">>
                        \o DecStr(counts[keys[i]])])

\* str(keyword_counts), which to_csv writes: {'phishing': 2, 'malware': 1}
Repr(counts) == <<"{">> \o Items(counts, "'") \o <<"}">>

\* json.dumps(keyword_counts): {"phishing": 2, "malware": 1}
JsonDumps(counts) == <<"{">> \o Items(counts, "\"") \o <<"}">>

\* to_csv, QUOTE_MINIMAL: a field with a comma, a quote or a line break is
\* put between double quotes, its double quotes doubled
CsvWriteField(s) ==
  LET special == \E i \in 1..Len(s) : s[i] \in {",", "\"", "\n", "\r"}
      doubled == [i \in 1..Len(s) |->
                    IF s[i] = "\"" THEN <<"\"", "\"">> ELSE <<s[i]>>]
  IN  IF ~special THEN s
      ELSE <<"\"">> \o JoinWith(<<>>, doubled) \o <<"\"">>

\* read_csv(dtype=str, keep_default_na=False) on one field: the quotes are
\* taken off, doubled quotes inside become one
RECURSIVE Undouble(_, _)
Undouble(s, i) ==
  IF i > Len(s) THEN <<>>
  ELSE IF s[i] = "\"" /\ i < Len(s) /\ s[i + 1] = "\""
       THEN <<"\"">> \o Undouble(s, i + 2)
  ELSE <<s[i]>> \o Undouble(s, i + 1)

CsvReadField(f) ==
  IF Len(f) >= 2 /\ f[1] = "\"" /\ f[Len(f)] = "\""
  THEN Undouble(SubSeq(f, 2, Len(f) - 1), 1)
  ELSE f

(***************************************************************************)
(* json.loads and ast.literal_eval on the strings of the model: integers,  *)
(* strings without escapes, the three names of each dialect, NaN, lists of *)
(* integers and dicts from strings to integers.                            *)
(***************************************************************************)
Punctuation == {"{", "}", "[", "]", ":", ","}

Token(kind, chars, num) == [kind |-> kind, chars |-> chars, num |-> num]

\* the quote characters that open a string: " in JSON, ' and " in Python
Quotes(dialect) == IF dialect = "json" THEN {"\""} ELSE {"\"", "'"}

\* the end of the maximal run of characters of class cls that starts at i
RECURSIVE RunEnd(_, _, _)
RunEnd(s, i, cls) ==
  IF i < Len(s) /\ s[i + 1] \in cls THEN RunEnd(s, i + 1, cls) ELSE i

\* the value of a run of digits
RECURSIVE DigitsValue(_, _)
DigitsValue(ds, acc) ==
  IF ds = <<>> THEN acc
  ELSE DigitsValue(Tail(ds),
                   10 * acc + (CHOOSE v \in 0..9 : DigitChar[v + 1] = Head(ds)))

\* the tokens of s from position i on
RECURSIVE Tokenize(_, _, _)
Tokenize(s, i, dialect) ==
  IF i > Len(s) THEN <<>>
  ELSE IF s[i] \in Whitespace THEN Tokenize(s, i + 1, dialect)
  ELSE IF s[i] \in Punctuation
       THEN <<Token(s[i], <<>>, 0)>> \o Tokenize(s, i + 1, dialect)
  ELSE IF s[i] \in Quotes(dialect)
       THEN LET closing == {j \in (i + 1)..Len(s) : s[j] = s[i]}
                j == CHOOSE j \in closing : \A k \in closing : j <= k
            IN  IF closing = {} \/ \E k \in (i + 1)..(j - 1) : s[k] \in {"\\", "\n"}
                THEN <<Token("bad", <<>>, 0)>>
                ELSE <<Token("str", SubSeq(s, i + 1, j - 1), 0)>>
                       \o Tokenize(s, j + 1, dialect)
  ELSE IF s[i] \in Digits \/ s[i] = "-"
       THEN LET first == IF s[i] = "-" THEN i + 1 ELSE i
                last == RunEnd(s, first, Digits)
                ds == SubSeq(s, first, last)
            IN  IF first > Len(s) \/ s[first] \notin Digits
                   \/ (Len(ds) > 1 /\ ds[1] = "0")
                THEN <<Token("bad", <<>>, 0)>>
                ELSE <<Token("int", <<>>,
                             IF s[i] = "-" THEN 0 - DigitsValue(ds, 0)
                             ELSE DigitsValue(ds, 0))>>
                       \o Tokenize(s, last + 1, dialect)
  ELSE IF s[i] \in Letters
       THEN LET last == RunEnd(s, i, Letters)
            IN  <<Token("name", SubSeq(s, i, last), 0)>>
                  \o Tokenize(s, last + 1, dialect)
  ELSE <<Token("bad", <<>>, 0)>>

ParseError == [ok |-> FALSE, val |-> PyNone]

Parsed(v) == [ok |-> TRUE, val |-> v]

\* the constants a dialect names
NameValue(chars, dialect) ==
  IF dialect = "json"
  THEN CASE chars = <<"n", "u", "l", "l">> -> Parsed(PyNone)
         [] chars = <<"t", "r", "u", "e">> -> Parsed(PyBool(TRUE))
         [] chars = <<"f", "a", "l", "s", "e">> -> Parsed(PyBool(FALSE))
         [] chars = <<"N", "a", "N">> -> Parsed(PyNaN)
         [] OTHER -> ParseError
  ELSE CASE chars = <<"N", "o", "n", "e">> -> Parsed(PyNone)
         [] chars = <<"T", "r", "u", "e">> -> Parsed(PyBool(TRUE))
         [] chars = <<"F", "a", "l", "s", "e">> -> Parsed(PyBool(FALSE))
         [] OTHER -> ParseError

\* what stands between the brackets; Python allows one comma after the last
\* element
Inner(tokens, dialect) ==
  LET all == SubSeq(tokens, 2, Len(tokens) - 1)
  IN  IF dialect = "python" /\ Len(all) > 1 /\ all[Len(all)].kind = ","
      THEN SubSeq(all, 1, Len(all) - 1)
      ELSE all

\* [int, int, ...]
ParseList(inner) ==
  IF inner = <<>> THEN Parsed(PyList(<<>>))
  ELSE IF /\ Len(inner) % 2 = 1
          /\ \A i \in 1..Len(inner) :
               inner[i].kind = IF i % 2 = 1 THEN "int" ELSE ","
       THEN Parsed(PyList([i \in 1..((Len(inner) + 1) \div 2) |->
                             inner[2 * i - 1].num]))
  ELSE ParseError

\* {str: int, str: int, ...}; of two items with one key the later stays
ParseDict(inner) ==
  IF inner = <<>> THEN Parsed(PyDict(EmptyDict))
  ELSE IF /\ Len(inner) % 4 = 3
          /\ \A i \in 1..Len(inner) :
               inner[i].kind = CASE i % 4 = 1 -> "str"
                                 [] i % 4 = 2 -> ":"
                                 [] i % 4 = 3 -> "int"
                                 [] OTHER -> ","
       THEN LET n == (Len(inner) + 1) \div 4
                keys == {inner[4 * g - 3].chars : g \in 1..n}
                Last(c) == CHOOSE g \in 1..n :
                             /\ inner[4 * g - 3].chars = c
                             /\ \A h \in 1..n :
                                  inner[4 * h - 3].chars = c => h <= g
            IN  Parsed(PyDict([c \in keys |-> inner[4 * Last(c) - 1].num]))
  ELSE ParseError

ParseValue(s, dialect) ==
  LET tokens == Tokenize(s, 1, dialect)
      n == Len(tokens)
  IN  IF n = 0 THEN ParseError
      ELSE IF \E i \in 1..n : tokens[i].kind = "bad" THEN ParseError
      ELSE IF n = 1 /\ tokens[1].kind = "int" THEN Parsed(PyInt(tokens[1].num))
      ELSE IF n = 1 /\ tokens[1].kind = "str" THEN Parsed(PyStr(tokens[1].chars))
      ELSE IF n = 1 /\ tokens[1].kind = "name"
           THEN NameValue(tokens[1].chars, dialect)
      ELSE IF n >= 2 /\ tokens[1].kind = "[" /\ tokens[n].kind = "]"
           THEN ParseList(Inner(tokens, dialect))
      ELSE IF n >= 2 /\ tokens[1].kind = "{" /\ tokens[n].kind = "}"
           THEN ParseDict(Inner(tokens, dialect))
      ELSE ParseError

\* json.loads(val): ok is FALSE when it raises
JsonLoads(s) == ParseValue(s, "json")

\* ast.literal_eval(val): ok is FALSE when it raises
LiteralEval(s) == ParseValue(s, "python")

\* parse_keyword_counts as it would be without the literal fallback
parse_keyword_counts_json_only(val) ==
  IF val.type = "dict" THEN val
  ELSE IF val.type = "str"
       THEN LET j == JsonLoads(Strip(val.chars))
            IN  IF j.ok THEN j.val ELSE PyDict(EmptyDict)
  ELSE PyDict(EmptyDict)

\* parse_keyword_counts(val), lines 23-39
parse_keyword_counts(val) ==
  IF val.type = "dict" THEN val
  ELSE IF val.type = "str"
       THEN LET s == Strip(val.chars)
                j == JsonLoads(s)
                py == LiteralEval(s)
            IN  IF j.ok THEN j.val
                ELSE IF py.ok /\ py.val.type = "dict" THEN py.val
                ELSE PyDict(EmptyDict)
  ELSE PyDict(EmptyDict)

(***************************************************************************)
(* parse_keyword_counts on its own: on arguments of every kind, and on the *)
(* strings the counts of the classifier are written as                     *)
(***************************************************************************)
RawStrings ==
  { <<"{", "\"", "r", "a", "n", "s", "o", "m", "w", "a", "r", "e", "\"", ":", " ", "3", "}">>,
    <<"{", "'", "r", "a", "n", "s", "o", "m", "w", "a", "r", "e", "'", ":", " ", "3", "}">>,
    <<"{", "}">>,
    <<>>,
    <<" ">>,
    <<"[", "1", ",", " ", "2", "]">>,
    <<"[", "]">>,
    <<"3">>,
    <<"-", "7">>,
    <<"n", "u", "l", "l">>,
    <<"t", "r", "u", "e">>,
    <<"f", "a", "l", "s", "e">>,
    <<"N", "o", "n", "e">>,
    <<"T", "r", "u", "e">>,
    <<"N", "a", "N">>,
    <<"n", "a", "n">>,
    <<"\"", "p", "h", "i", "s", "h", "i", "n", "g", "\"">>,
    <<"'", "p", "h", "i", "s", "h", "i", "n", "g", "'">>,
    <<"{", "\"", "a", "\"", ":", " ", "1", ",", " ", "\"", "a", "\"", ":", " ", "2", "}">>,
    <<"{", "'", "a", "'", ":", " ", "1", ",", " ", "'", "a", "'", ":", " ", "2", "}">>,
    <<"{", "'", "a", "'", ":", " ", "1", ",", "}">>,
    <<"{", "\"", "a", "\"", ":", " ", "1", ",", "}">>,
    <<"[", "1", ",", " ", "2", ",", "]">>,
    <<"n", "o", "t", " ", "j", "s", "o", "n">>,
    <<"{", "p", "h", "i", "s", "h", "i", "n", "g", ":", " ", "2", "}">>,
    <<"{", "'", "a", "'", ":", " ", "1">>,
    <<"0", "1">>,
    <<" ", "{", "\"", "a", "\"", ":", " ", "1", "2", "}", " ">>,
    <<"{", "'", "a", "'", ":", " ", "1", ",", " ", "\"", "b", "\"", ":", " ", "2", "0", "}">>,
    <<"{">>,
    <<"[", "1", " ", "2", "]">>,
    <<"{", "\"", "a", "\"", ":", "1", "}">>,
    <<"{", "\"", "p", "h", "i", "s", "h", "i", "n", "g", "\"", ":", " ", "2", ",", " ", "\"", "m", "a", "l", "w", "a", "r", "e", "\"", ":", " ", "1", "}">>,
    <<"{", "'", "p", "h", "i", "s", "h", "i", "n", "g", "'", ":", " ", "2", ",", " ", "'", "m", "a", "l", "w", "a", "r", "e", "'", ":", " ", "1", "}">>,
    <<"[", "1", ",", " ", "2">>,
    <<"{", "'", "a", "'", " ", "1", "}">>,
    <<"{", ",", "}">>,
    <<"[", ",", "]">>,
    <<"{", "'", "a", "'", ":", " ", "1", ",", ",", "}">>,
    <<"1", "2", " ", "3">>,
    <<"1", "a">>,
    <<"-">>,
    <<"{", "}", " ", "{", "}">>,
    <<"{", "'", "x", "'", ":", " ", "1", "0", "}", "\n">> }

\* the arguments: strings, dicts and values that are neither
ParseArgs ==
  {PyStr(s) : s \in RawStrings}
  \cup {PyNone, PyInt(3), PyNaN, PyList(<<1, 2>>), PyDict(EmptyDict),
        DictOf("phishing" :> 2)}

MaxKeys == 2

PoolKeys == {"phishing", "personal_data_breach", "tech_support"}

CountValues == {1, 12, 105}

\* counts mappings find_keywords_and_sentences can return
CountsPool ==
  UNION { [ks -> CountValues] :
            ks \in {ks \in SUBSET PoolKeys : Cardinality(ks) <= MaxKeys} }

InitParse ==
  /\ \/ pc = "p_arg" /\ field \in ParseArgs /\ keyword_counts = EmptyDict
     \/ pc = "p_counts" /\ field = PyNone /\ keyword_counts \in CountsPool
  /\ parsed = PyNone
  /\ table = <<>>
  /\ batches = <<>>
  /\ runs = 0
  /\ loader_rows = <<>>
  /\ offset = 0
  /\ phrases = <<>>
  /\ matched = FALSE
  /\ text = <<>>
  /\ summary_sentences = <<>>
  /\ summary = <<>>
  /\ year_idx = 1
  /\ pdf_entries = <<>>
  /\ entry_idx = 1
  /\ files = NoFiles
  /\ pdf_path = NoPath
  /\ all_rows = <<>>
  /\ csv = [written |-> FALSE, rows |-> <<>>]
  /\ retrieved = PdfCorrupt
  /\ docs = <<>>
  /\ row_doc = <<>>
  /\ calls = <<>>

\* what no step of the parser touches
ParseFrame ==
  UNCHANGED <<phrases, matched, keyword_counts, summary_sentences, summary,
              year_idx, pdf_entries, entry_idx, files, pdf_path, all_rows,
              csv, retrieved, docs, row_doc, calls, table, batches, runs,
              loader_rows, offset>>

\* the counts as a JSON object string
DumpJson ==
  /\ pc = "p_counts"
  /\ field' = PyStr(JsonDumps(keyword_counts))
  /\ pc' = "p_json"
  /\ UNCHANGED <<text, parsed>>
  /\ ParseFrame

\* scraper.py, lines 208-209: the keyword_counts field of the CSV file
WriteCsv ==
  /\ pc = "p_counts"
  /\ text' = CsvWriteField(Repr(keyword_counts))
  /\ pc' = "p_csv"
  /\ UNCHANGED <<field, parsed>>
  /\ ParseFrame

\* loader.py, line 51: the field as read_csv gives it
ReadCsv ==
  /\ pc = "p_csv"
  /\ field' = PyStr(CsvReadField(text))
  /\ pc' = "p_read"
  /\ UNCHANGED <<text, parsed>>
  /\ ParseFrame

\* loader.py, line 46: parse_keyword_counts(row["keyword_counts"])
ParseField ==
  /\ pc \in {"p_arg", "p_json", "p_read"}
  /\ parsed' = parse_keyword_counts(field)
  /\ pc' = CASE pc = "p_arg" -> "p_done_arg"
             [] pc = "p_json" -> "p_done_json"
             [] OTHER -> "p_done_csv"
  /\ UNCHANGED <<text, field>>
  /\ ParseFrame

NextParse ==
  \/ DumpJson
  \/ WriteCsv
  \/ ReadCsv
  \/ ParseField

SpecParse == InitParse /\ [][NextParse]_vars

(***************************************************************************)
(* Properties of parse_keyword_counts (SpecParse)                          *)
(***************************************************************************)
\* the string is a JSON object or a Python dict display
IsObjectString(s) ==
  \/ JsonLoads(s).ok /\ JsonLoads(s).val.type = "dict"
  \/ LiteralEval(s).ok /\ LiteralEval(s).val.type = "dict"

\* C13: parse_keyword_counts returns a mapping whatever it is given: the
\* dict it was given, and the empty mapping for every argument that is no
\* dict and no string of a JSON object or of a literal dict (a string of a
\* JSON list or number included).
C13_AlwaysAMapping ==
  pc = "p_done_arg" =>
    /\ parsed.type = "dict"
    /\ field.type = "dict" => parsed = field
    /\ (field.type # "dict"
          /\ ~(field.type = "str" /\ IsObjectString(Strip(field.chars)))) =>
         parsed = PyDict(EmptyDict)

\* C14: the counts written as a JSON object string, or as the dict display
\* of the CSV file and read back from it, are parsed to a mapping equal to
\* the counts.
C14_RoundTrip ==
  pc \in {"p_done_json", "p_done_csv"} => parsed = DictOf(keyword_counts)

\* two categories with counts of two and three digits, through the CSV file
C14_Witness ==
  /\ pc = "p_done_csv"
  /\ keyword_counts = ("phishing" :> 12) @@ ("personal_data_breach" :> 105)
  /\ text # Repr(keyword_counts)
  /\ parsed.items[KeyChars["personal_data_breach"]] = 105

(***************************************************************************)
(* loader.py: coerce_row and main                                          *)
(***************************************************************************)
BATCH_SIZE == 500

\* on_conflict="title,date"
OnConflict == <<"title", "date">>

\* s[:n]
Prefix(s, n) == SubSeq(s, 1, IF Len(s) < n THEN Len(s) ELSE n)

\* coerce_row(row) for a record of read_csv(dtype=str): every field a string
coerce_row(row) ==
  [title |-> Strip(row.title),
   date |-> Prefix(row.date, 10),
   quarter |-> DigitsValue(row.quarter, 0),
   keyword_counts |-> parse_keyword_counts(PyStr(row.keyword_counts)),
   summary |-> Strip(row.summary)]

\* the values of a row in the columns of on_conflict
ConflictKey(row, on_conflict) ==
  [c \in 1..Len(on_conflict) |-> row[on_conflict[c]]]

\* The upsert of a chunk for given keys of the table rows (tkeys) and of the
\* chunk rows (ckeys): a table row whose key is in the chunk takes the
\* values of the last chunk row with that key, in place; the chunk rows of
\* other keys are added after the table rows, one per key
Merge(tbl, chunk, tkeys, ckeys, tset, cset) ==
  LET LastOf(k) == CHOOSE j \in 1..Len(chunk) :
                     /\ ckeys[j] = k
                     /\ \A h \in (j + 1)..Len(chunk) : ckeys[h] # k
      updated == [i \in 1..Len(tbl) |->
                    IF tkeys[i] \in cset THEN chunk[LastOf(tkeys[i])]
                    ELSE tbl[i]]
      IsNew(j) == /\ ckeys[j] \notin tset
                  /\ \A h \in 1..(j - 1) : ckeys[h] # ckeys[j]
      fresh == SelectSeq([j \in 1..Len(chunk) |-> j], IsNew)
  IN  updated \o [n \in 1..Len(fresh) |-> chunk[LastOf(ckeys[fresh[n]])]]

\* supabase.table(TABLE).upsert(chunk, on_conflict=...).execute() on a table
\* with one row per value of the on_conflict columns
Upsert(tbl, chunk, on_conflict) ==
  LET tkeys == [i \in 1..Len(tbl) |-> ConflictKey(tbl[i], on_conflict)]
      ckeys == [j \in 1..Len(chunk) |-> ConflictKey(chunk[j], on_conflict)]
  IN  Merge(tbl, chunk, tkeys, ckeys,
            {tkeys[i] : i \in 1..Len(tbl)}, {ckeys[j] : j \in 1..Len(chunk)})

\* rows[i:i+BATCH_SIZE] as it would be with one row more
ChunkAndNext(rows, i) ==
  SubSeq(rows, i + 1,
         IF i + BATCH_SIZE + 1 > Len(rows) THEN Len(rows) ELSE i + BATCH_SIZE + 1)

\* rows[i:i+BATCH_SIZE]
Chunk(rows, i) ==
  SubSeq(rows, i + 1,
         IF i + BATCH_SIZE > Len(rows) THEN Len(rows) ELSE i + BATCH_SIZE)

(***************************************************************************)
(* The CSV files main is run on                                            *)
(***************************************************************************)
Date1 == <<"2", "0", "2", "5", "-", "0", "7", "-", "1", "4">>

Date2 == <<"2", "0", "2", "4", "-", "1", "2", "-", "3", "1">>

CsvRow(title, date, s) ==
  [title |-> title, date |-> date, quarter |-> <<"3">>,
   keyword_counts |-> <<"{", "}">>, summary |-> s]

\* two rows of one key (the title of the second ends with a space, its date
\* goes on after the day), and rows that differ from them in title or date
SmallRows ==
  { CsvRow(<<"A">>, Date1, <<"s", "1">>),
    CsvRow(<<"A", " ">>, Date1 \o <<" ", "0", "0", ":", "0", "0">>, <<"s", "2">>),
    CsvRow(<<"B">>, Date1, <<"s", "1">>),
    CsvRow(<<"A">>, Date2, <<"s", "1">>) }

MaxCsvRows == 2

\* n rows of n keys; when it fills more than two chunks its last row has the
\* key of the first
BigCsv(n) ==
  [i \in 1..n |->
     IF i = n /\ n > 2 * BATCH_SIZE
     THEN CsvRow(DecStr(1), Date1, <<"s", "2">>)
     ELSE CsvRow(DecStr(i), Date1, <<"s", "1">>)]

CsvFiles ==
  SeqsUpTo(SmallRows, MaxCsvRows)
  \cup {BigCsv(BATCH_SIZE), BigCsv(BATCH_SIZE + 1), BigCsv(2 * BATCH_SIZE + 1)}

MaxRuns == 2

InitLoader ==
  /\ pc = "l_start"
  /\ \E f \in CsvFiles : csv = [written |-> TRUE, rows |-> f]
  /\ LoaderIdle
  /\ phrases = <<>>
  /\ matched = FALSE
  /\ text = <<>>
  /\ keyword_counts = EmptyDict
  /\ summary_sentences = <<>>
  /\ summary = <<>>
  /\ year_idx = 1
  /\ pdf_entries = <<>>
  /\ entry_idx = 1
  /\ files = NoFiles
  /\ pdf_path = NoPath
  /\ all_rows = <<>>
  /\ retrieved = PdfCorrupt
  /\ docs = <<>>
  /\ row_doc = <<>>
  /\ calls = <<>>

\* what no step of main touches
LoaderFrame ==
  UNCHANGED <<phrases, matched, text, keyword_counts, summary_sentences,
              summary, year_idx, pdf_entries, entry_idx, files, pdf_path,
              all_rows, csv, retrieved, docs, row_doc, calls, field, parsed>>

\* lines 51-58: the rows of the CSV file, coerced
LoadRows ==
  /\ pc = "l_start"
  /\ loader_rows' = [i \in 1..Len(csv.rows) |-> coerce_row(csv.rows[i])]
  /\ offset' = 0
  /\ batches' = <<>>
  /\ pc' = "l_loop"
  /\ UNCHANGED <<table, runs>>
  /\ LoaderFrame

\* lines 59-65: one pass of the for loop
UpsertChunk ==
  /\ pc = "l_loop"
  /\ offset < Len(loader_rows)
  /\ \E chunk \in {Chunk(loader_rows, offset)} :
       /\ table' = Upsert(table, chunk, OnConflict)
       /\ batches' = Append(batches, [start |-> offset, chunk |-> chunk])
  /\ offset' = offset + BATCH_SIZE
  /\ UNCHANGED <<pc, loader_rows, runs>>
  /\ LoaderFrame

\* range(0, total, BATCH_SIZE) is exhausted: main returns
FinishRun ==
  /\ pc = "l_loop"
  /\ offset >= Len(loader_rows)
  /\ runs' = runs + 1
  /\ pc' = "l_done"
  /\ UNCHANGED <<table, batches, loader_rows, offset>>
  /\ LoaderFrame

\* the loader is run again over the same file
RunAgain ==
  /\ pc = "l_done"
  /\ runs < MaxRuns
  /\ pc' = "l_start"
  /\ UNCHANGED <<table, batches, runs, loader_rows, offset>>
  /\ LoaderFrame

NextLoader ==
  \/ LoadRows
  \/ UpsertChunk
  \/ FinishRun
  \/ RunAgain

SpecLoader == InitLoader /\ [][NextLoader]_vars

(***************************************************************************)
(* Properties of the loader (SpecLoader)                                   *)
(***************************************************************************)
\* the key of the claim: title and date
TitleDate(row) == <<row.title, row.date>>

\* title and date of a row of the file as they are sent: the title trimmed,
\* the date cut to its first 10 characters
SentTitleDate(r) ==
  <<Strip(r.title), [i \in 1..(IF Len(r.date) < 10 THEN Len(r.date) ELSE 10) |-> r.date[i]]>>

TableKeys == {TitleDate(table[i]) : i \in 1..Len(table)}

FileKeys == {SentTitleDate(csv.rows[i]) : i \in 1..Len(csv.rows)}

\* the rows sent so far in this run
SentCount == IF offset < Len(loader_rows) THEN offset ELSE Len(loader_rows)

NumYears == 1

FirstYear == 2024

QuarterDates ==
  { [year |-> y, month |-> m, day |-> d] :
      y \in FirstYear..(FirstYear + NumYears - 1), m \in 1..12, d \in 1..31 }

\* the dates strptime can return for those years
ValidDates == {d \in QuarterDates : d.day <= DaysInMonth(d.year, d.month)}

InitQuarter ==
  /\ pc = "q_start"
  /\ \E d \in ValidDates :
       pdf_entries = <<[title |-> "Alert X", url |-> Origin, date |-> d]>>
  /\ phrases = <<>>
  /\ matched = FALSE
  /\ text = <<>>
  /\ keyword_counts = EmptyDict
  /\ summary_sentences = <<>>
  /\ summary = <<>>
  /\ year_idx = 1
  /\ entry_idx = 1
  /\ files = NoFiles
  /\ pdf_path = NoPath
  /\ all_rows = <<>>
  /\ csv = [written |-> FALSE, rows |-> <<>>]
  /\ retrieved = PdfCorrupt
  /\ docs = <<>>
  /\ row_doc = <<>>
  /\ calls = <<>>
  /\ LoaderIdle

\* lines 198-205 for the entry
EmitRow ==
  /\ pc = "q_start"
  /\ all_rows' = AppendRow(all_rows, MakeRow(Entry, keyword_counts, summary))
  /\ pc' = "q_done"
  /\ UNCHANGED LoaderVars
  /\ UNCHANGED <<phrases, matched, text, keyword_counts, summary_sentences,
                 summary, year_idx, pdf_entries, entry_idx, files, pdf_path,
                 csv, retrieved, docs, row_doc, calls>>

NextQuarter == EmitRow

SpecQuarter == InitQuarter /\ [][NextQuarter]_vars

\* the quarter of the claim: months 1-3 give 1, 4-6 give 2, 7-9 give 3,
\* 10-12 give 4
QuarterOfMonth(m) == ((m - 1) \div 3) + 1

F_EXACT ==
  <<"f", "r", "a", "u", "d", " ", "a", "l", "e", "r", "t", " ", "n", "o",
    "t", "i", "c", "e", " ", "s", "e", "n", "t", " ", "a", "b", "r", "o",
    "a", "d">>

\* 5 words, 29 characters
F_29 ==
  <<"f", "r", "a", "u", "d", " ", "a", "l", "e", "r", "t", " ", "n", "o",
    "t", "i", "c", "e", " ", "s", "e", "n", "t", " ", "a", "f", "a", "r",
    ".">>

\* 4 words, 36 characters
F_4WORDS ==
  <<"f", "r", "a", "u", "d", "u", "l", "e", "n", "t", " ", "a", "l", "e",
    "r", "t", "s", " ", "n", "o", "t", "i", "c", "e", "d", " ", "e", "v",
    "e", "r", "y", "w", "h", "e", "r", "e">>

\* 30 characters, 12 of them neither letter nor space: ratio exactly 0.4
F_RATIO_EQ ==
  <<"o", "n", " ", "1", "2", "3", "4", "5", "6", " ", "w", "e", " ", "g",
    "o", "t", " ", "6", "5", "4", "3", "2", " ", "m", "a", "i", "l", "s",
    "s", ".">>

\* 30 characters, 13 of them neither letter nor space
F_RATIO_GT ==
  <<"o", "n", " ", "1", "2", "3", "4", "5", "6", " ", "w", "e", " ", "g",
    "o", "t", " ", "6", "5", "4", "3", "2", "1", " ", "m", "a", "i", "l",
    "s", ".">>

\* junk signature sid:<digit>, upper case
F_SID ==
  <<"T", "h", "e", " ", "r", "u", "l", "e", " ", "w", "i", "t", "h", " ",
    "S", "I", "D", ":", "9", " ", "w", "a", "s", " ", "s", "e", "e", "n",
    " ", "i", "n", " ", "m", "a", "n", "y", " ", "p", "l", "a", "c", "e",
    "s", " ", "t", "o", "d", "a", "y">>

\* sid: without a digit
F_SIDWORD ==
  <<"T", "h", "e", " ", "w", "o", "r", "d", " ", "s", "i", "d", ":", " ",
    "a", "l", "o", "n", "e", " ", "i", "s", " ", "n", "o", "t", " ", "a",
    " ", "r", "u", "l", "e", " ", "s", "i", "g", "n", "a", "t", "u", "r",
    "e", " ", "a", "t", " ", "a", "l", "l">>

\* a hex byte between bars
F_HEX ==
  <<"T", "h", "e", " ", "b", "y", "t", "e", "s", " ", "|", "3", "A", "|",
    " ", "w", "e", "r", "e", " ", "s", "e", "e", "n", " ", "i", "n", " ",
    "m", "a", "n", "y", " ", "o", "f", " ", "t", "h", "e", " ", "m", "e",
    "s", "s", "a", "g", "e", "s">>

\* junk signature content:
F_CONTENT ==
  <<"T", "h", "e", " ", "C", "o", "n", "t", "e", "n", "t", ":", " ", "h",
    "e", "a", "d", "e", "r", " ", "w", "a", "s", " ", "s", "e", "e", "n",
    " ", "i", "n", " ", "m", "a", "n", "y", " ", "o", "f", " ", "t", "h",
    "e", " ", "m", "e", "s", "s", "a", "g", "e", "s">>

\* junk signature flowbits
F_FLOWBITS ==
  <<"T", "h", "e", " ", "o", "p", "t", "i", "o", "n", " ", "f", "l", "o",
    "w", "b", "i", "t", "s", " ", "w", "a", "s", " ", "s", "e", "e", "n",
    " ", "i", "n", " ", "m", "a", "n", "y", " ", "o", "f", " ", "t", "h",
    "e", " ", "r", "u", "l", "e", "s">>

\* URL-like substring www.
F_URL ==
  <<"V", "i", "c", "t", "i", "m", "s", " ", "w", "e", "r", "e", " ", "s",
    "e", "n", "t", " ", "t", "o", " ", "w", "w", "w", ".", "e", "x", "a",
    "m", "p", "l", "e", " ", "f", "o", "r", " ", "t", "h", "e", " ", "p",
    "a", "y", "m", "e", "n", "t">>

\* the same in upper case
F_URL_UP ==
  <<"V", "i", "c", "t", "i", "m", "s", " ", "w", "e", "r", "e", " ", "s",
    "e", "n", "t", " ", "t", "o", " ", "W", "W", "W", ".", "E", "X", "A",
    "M", "P", "L", "E", ".", "C", "O", "M", " ", "f", "o", "r", " ", "t",
    "h", "e", " ", "p", "a", "y", "m", "e", "n", "t">>

\* domain suffix .gov
F_GOV ==
  <<"R", "e", "p", "o", "r", "t", " ", "i", "t", " ", "a", "t", " ", "t",
    "h", "e", " ", "i", "c", "3", ".", "g", "o", "v", " ", "s", "i", "t",
    "e", " ", "a", "s", " ", "s", "o", "o", "n", " ", "a", "s", " ", "p",
    "o", "s", "s", "i", "b", "l", "e">>

\* structural character @
F_AT ==
  <<"W", "r", "i", "t", "e", " ", "t", "o", " ", "t", "h", "e", " ", "o",
    "f", "f", "i", "c", "e", " ", "a", "t", " ", "h", "e", "l", "p", "@",
    "a", "g", "e", "n", "c", "y", " ", "a", "s", " ", "s", "o", "o", "n",
    " ", "a", "s", " ", "p", "o", "s", "s", "i", "b", "l", "e">>

\* structural character <
F_LT ==
  <<"L", "o", "s", "s", "e", "s", " ", "o", "f", " ", "<", " ", "1", "0",
    "0", " ", "d", "o", "l", "l", "a", "r", "s", " ", "w", "e", "r", "e",
    " ", "r", "e", "p", "o", "r", "t", "e", "d", " ", "b", "y", " ", "m",
    "a", "n", "y", " ", "v", "i", "c", "t", "i", "m", "s">>

\* a text of n characters, words of five letters
LongText(n) == [i \in 1..n |-> IF i % 6 = 0 THEN " " ELSE "a"]

FilterSentences ==
  { F_EXACT, F_29, F_4WORDS, F_RATIO_EQ, F_RATIO_GT, F_SID, F_SIDWORD, F_HEX,
    F_CONTENT, F_FLOWBITS, F_URL, F_URL_UP, F_GOV, F_AT, F_LT,
    S_PHISH, S_WRAP, S_RULE, S_SHORT, S_PLAIN,
    LongText(MaxChars), LongText(MaxChars + 1), <<>> }

MaxPad == 1

\* runs of whitespace of up to n characters
RECURSIVE Pads(_)
Pads(n) ==
  IF n = 0 THEN {<<>>}
  ELSE Pads(n - 1) \cup {p \o <<c>> : p \in Pads(n - 1), c \in {" ", "\n"}}

\* every space of s written twice
DoubleSpaces(s) ==
  LET twice == [i \in 1..Len(s) |-> IF s[i] = " " THEN <<" ", " ">> ELSE <<s[i]>>]
      starts == [i \in 1..Len(s) |->
                   i + Cardinality({j \in 1..(i - 1) : s[j] = " "})]
      n == Len(s) + Cardinality({j \in 1..Len(s) : s[j] = " "})
  IN  [k \in 1..n |->
         LET i == CHOOSE i \in 1..Len(s) :
                    starts[i] <= k /\ k < starts[i] + Len(twice[i])
         IN  twice[i][k - starts[i] + 1]]

Short(S) == {s \in S : Len(s) <= 100}

\* the sentences, and the shorter ones with whitespace before, after and
\* inside them
FilterTexts ==
  FilterSentences
  \cup {a \o s \o b : a \in Pads(MaxPad), s \in Short(FilterSentences),
                      b \in Pads(MaxPad)}
  \cup {DoubleSpaces(s) : s \in Short(FilterSentences)}

InitFilter ==
  /\ pc = "f_start"
  /\ text \in FilterTexts
  /\ phrases = <<>>
  /\ matched = FALSE
  /\ keyword_counts = EmptyDict
  /\ summary_sentences = <<>>
  /\ summary = <<>>
  /\ year_idx = 1
  /\ pdf_entries = <<>>
  /\ entry_idx = 1
  /\ files = NoFiles
  /\ pdf_path = NoPath
  /\ all_rows = <<>>
  /\ csv = [written |-> FALSE, rows |-> <<>>]
  /\ retrieved = PdfCorrupt
  /\ docs = <<>>
  /\ row_doc = <<>>
  /\ calls = <<>>
  /\ LoaderIdle

\* line 146: is_meaningful_sentence(sent)
ApplyFilter ==
  /\ pc = "f_start"
  /\ matched' = is_meaningful_sentence(text)
  /\ pc' = "f_done"
  /\ UNCHANGED LoaderVars
  /\ UNCHANGED <<phrases, text, keyword_counts, summary_sentences, summary,
                 year_idx, pdf_entries, entry_idx, files, pdf_path, all_rows,
                 csv, retrieved, docs, row_doc, calls>>

NextFilter == ApplyFilter

SpecFilter == InitFilter /\ [][NextFilter]_vars

(***************************************************************************)
(* Properties of is_meaningful_sentence (SpecFilter)                       *)
(***************************************************************************)
\* whitespace runs collapsed to one space, then both ends trimmed
NormalizeWhitespace(s) ==
  LET c == CollapseWhitespace(s)
      first == IF c # <<>> /\ c[1] = " " THEN 2 ELSE 1
      last == IF c # <<>> /\ c[Len(c)] = " " THEN Len(c) - 1 ELSE Len(c)
  IN  SubSeq(c, first, last)

\* t holds p at position i
HasAt(t, p, i) == i + Len(p) - 1 <= Len(t) /\ SubSeq(t, i, i + Len(p) - 1) = p

Contains(t, p) == \E i \in 1..Len(t) : HasAt(t, p, i)

\* the words of a normalized text stand between its single spaces
WordsOf(n) ==
  IF n = <<>> THEN 0 ELSE 1 + Cardinality({i \in 1..Len(n) : n[i] = " "})

SymbolCount(n) ==
  Cardinality({i \in 1..Len(n) : n[i] # " " /\ n[i] \notin Letters})

JunkLiterals ==
  { <<"$", "h", "t", "t", "p", "_", "p", "o", "r", "t", "s">>,
    <<"a", "l", "e", "r", "t", " ", "t", "c", "p">>,
    <<"h", "t", "t", "p", "_", "h", "e", "a", "d", "e", "r">>,
    <<"h", "t", "t", "p", "_", "u", "r", "i">>,
    <<"f", "l", "o", "w", "b", "i", "t", "s">>,
    <<"p", "c", "r", "e", ":">>,
    <<"m", "s", "g", ":">>,
    <<"m", "e", "t", "a", "d", "a", "t", "a", ":">>,
    <<"c", "l", "a", "s", "s", "t", "y", "p", "e", ":">>,
    <<"c", "o", "n", "t", "e", "n", "t", ":">> }

NumberedJunk == { <<"s", "i", "d", ":">>, <<"r", "e", "v", ":">> }

HexDigits == Digits \cup {"a", "b", "c", "d", "e", "f"}

\* a junk rule-syntax signature, letter case apart
HasJunkSignature(n) ==
  LET l == LowerStr(n)
  IN  \/ \E p \in JunkLiterals : Contains(l, p)
      \/ \E p \in NumberedJunk : \E i \in 1..Len(l) :
           /\ HasAt(l, p, i)
           /\ i + Len(p) <= Len(l)
           /\ l[i + Len(p)] \in Digits
      \/ \E i \in 1..(Len(l) - 3) :
           /\ l[i] = "|" /\ l[i + 3] = "|"
           /\ l[i + 1] \in HexDigits /\ l[i + 2] \in HexDigits

UrlLiterals ==
  { <<"h", "t", "t", "p", ":", "/", "/">>,
    <<"h", "t", "t", "p", "s", ":", "/", "/">>,
    <<"w", "w", "w", ".">>,
    <<".", "c", "o", "m">>,
    <<".", "g", "o", "v">>,
    <<".", "r", "u">>,
    <<".", "t", "o", "p">>,
    <<".", "n", "e", "t">> }

HasUrl(n) == \E p \in UrlLiterals : Contains(n, p)

StructuralChars == {";", "{", "}", "<", ">", "@", "|", "$"}

HasStructuralChar(n) == \E i \in 1..Len(n) : n[i] \in StructuralChars

\* the rejection conditions of the claim, on a normalized text
Rejected(n) ==
  \/ WordsOf(n) < 5
  \/ Len(n) < 30
  \/ Len(n) > 1000
  \/ 5 * SymbolCount(n) > 2 * Len(n)
  \/ HasJunkSignature(n)
  \/ HasUrl(n)
  \/ HasStructuralChar(n)

\* C16: is_meaningful is false exactly when, after whitespace collapse, a
\* rejection condition holds: fewer than 5 words, fewer than 30 or more than
\* 1000 characters, more than 0.4 of the characters neither letter nor
\* space, a junk signature, a URL-like substring or a structural character;
\* the boundary values are accepted.
C16_FalseIffRejected ==
  pc = "f_done" => (matched <=> ~Rejected(NormalizeWhitespace(text)))

\* the boundary sentence of 5 words and 30 characters is accepted
C16_Witness ==
  /\ pc = "f_done"
  /\ text = F_EXACT
  /\ WordsOf(text) = 5 /\ Len(text) = 30
  /\ matched

\* C17: is_meaningful(s) = is_meaningful(normalize_whitespace(s)), and
\* normalize_whitespace is idempotent.
C17_InvariantUnderNormalization ==
  pc = "f_done" =>
    /\ matched = is_meaningful_sentence(NormalizeWhitespace(text))
    /\ NormalizeWhitespace(NormalizeWhitespace(text)) = NormalizeWhitespace(text)

\* a sentence of 29 characters after a newline: 30 characters as given, and
\* rejected as its normalized form is
C17_Witness ==
  /\ pc = "f_done"
  /\ text = <<"\n">> \o F_29
  /\ NormalizeWhitespace(text) = F_29
  /\ ~matched
====
